---- MODULE Spec2Model ----
(***************************************************************************)
(* Moreau Arena combat simulator: the engine's tick loop (simulator/       *)
(* engine.py), the ability/proc system (simulator/abilities.py), the grid  *)
(* (simulator/grid.py), creature construction and build validation.        *)
(*                                                                         *)
(* Numbers.  Probabilities and normalised random values are integers in    *)
(* parts per million (PPM == 1.0).  Attack multipliers are integers in     *)
(* units of 1/10000 (ONE == 1.0) and are multiplied by factors given in    *)
(* per-mille.  Thresholds such as hp < max_hp * 0.15 are compared by cross *)
(* multiplication; for max_hp in 60..220 the float expressions of the code *)
(* and the integer expressions used here agree on every integer hp.        *)
(*                                                                         *)
(* Randomness.  seeded_random(seed) is SHA-256 of the seed: a fixed        *)
(* function nobody can compute here.  A draw is identified by the integers *)
(* its seed is derived from (kind, tick, index, sub-index); its value is   *)
(* chosen from a finite set of normalised values the first time the key is *)
(* drawn and, when the match is replayed, read back from the oracle.       *)
(***************************************************************************)
EXTENDS Integers, Sequences, FiniteSets, TLC

VARIABLES
    input,        \* the caller's arguments: creature_a, creature_b, config
    mode,         \* "single" | "first" | "second" (a replay of the same inputs)
    oracle,       \* values of the draws made so far, kept when the match is replayed
    cr,           \* the engine's locals a and b: side -> creature record
    cells,        \* Grid._cells: the occupied cells and whose object holds them
    tick,         \* loop variable of run_combat
    phase,        \* position inside run_combat
    turn_order,   \* this tick's order of sides
    attack_index, \* running attack counter
    hp_start,     \* hp_a_start / hp_b_start of the current tick
    fury_ticks,   \* per side: ticks whose attack phases ran with the fury bonus in effect
    strikes,      \* per side: attacks resolved and received so far, and the one-shot passives used on them
    tick_events,  \* events of the current tick
    log,          \* the ticks logged so far (kept whole only when replaying)
    proc_events,  \* per side and ability: ability_proc events logged in this match
    chance_hits,  \* proc rolls that succeeded and attacks that were dodged in this match
    proc_made,    \* the proc rolls drawn by the latest roll_ability_procs call
    result,       \* CombatResult, or NoResult while the match runs
    first_result, \* result and log of the first execution when replaying
    pure          \* the latest call of a validation or derived-stat function

vars == <<input, mode, oracle, cr, cells, tick, phase, turn_order, attack_index,
          hp_start, fury_ticks, strikes, tick_events, log, proc_events, chance_hits, proc_made, result, first_result,
          pure>>

(***************************************************************************)
(* Bounds of the model                                                     *)
(***************************************************************************)
MaxChanceHits == 2
MaxTickBudget == 6
MaxStrikes == 2

(***************************************************************************)
(* Program constants                                                       *)
(***************************************************************************)
\* Units of the model's arithmetic: 1.0 as a probability and as a multiplier.
PPM == 1000 * 1000
ONE == 100 * 100
GridSize == 8
StrongRate == 35000
OtherRate == 45000
StatTotal == 20
DefaultMaxTicks == 60
DefaultRingStart == 30

Sides == {"a", "b"}
Other(s) == IF s = "a" THEN "b" ELSE "a"
SideIndex(s) == IF s = "a" THEN 0 ELSE 1

Min(x, y) == IF x <= y THEN x ELSE y
Max(x, y) == IF x >= y THEN x ELSE y
Abs(x) == IF x >= 0 THEN x ELSE -x

(***************************************************************************)
(* Data model (simulator/animals.py)                                       *)
(***************************************************************************)
Animals == {"bear", "buffalo", "boar", "tiger", "wolf", "monkey", "crocodile",
            "eagle", "snake", "raven", "shark", "owl", "fox", "scorpion"}

ANIMAL_PASSIVE ==
    [bear |-> "fury_protocol", buffalo |-> "thick_hide", boar |-> "charge",
     tiger |-> "ambush_wiring", wolf |-> "pack_sense", monkey |-> "primate_cortex",
     crocodile |-> "death_roll", eagle |-> "aerial_strike", snake |-> "venom_glands",
     raven |-> "omen", shark |-> "blood_frenzy", owl |-> "night_vision",
     fox |-> "cunning", scorpion |-> "paralytic_sting"]

Ability(t, p, d, sc) ==
    [ability_type |-> t, proc_chance |-> p, duration |-> d, is_single_charge |-> sc]

ANIMAL_ABILITIES ==
    [bear      |-> <<Ability("berserker_rage", StrongRate, 3, FALSE),
                     Ability("last_stand", StrongRate, 0, TRUE)>>,
     buffalo   |-> <<Ability("thick_hide_ability", OtherRate, 1, FALSE),
                     Ability("iron_will", StrongRate, 0, TRUE)>>,
     tiger     |-> <<Ability("pounce", OtherRate, 0, FALSE),
                     Ability("hamstring", OtherRate, 4, FALSE)>>,
     wolf      |-> <<Ability("pack_howl", OtherRate, 4, FALSE),
                     Ability("rend_ability", OtherRate, 3, FALSE)>>,
     monkey    |-> <<Ability("chaos_strike", OtherRate, 0, FALSE),
                     Ability("mimic", StrongRate, 0, FALSE)>>,
     boar      |-> <<Ability("stampede", OtherRate, 0, FALSE),
                     Ability("gore", StrongRate, 0, FALSE)>>,
     crocodile |-> <<Ability("death_roll_ability", OtherRate, 0, FALSE),
                     Ability("thick_scales", OtherRate, 2, FALSE)>>,
     eagle     |-> <<Ability("dive", StrongRate, 0, FALSE),
                     Ability("keen_eye", OtherRate, 3, FALSE)>>,
     snake     |-> <<Ability("venom", OtherRate, 3, FALSE),
                     Ability("coil", OtherRate, 0, FALSE)>>,
     raven     |-> <<Ability("shadow_clone", OtherRate, 0, TRUE),
                     Ability("curse", OtherRate, 3, FALSE)>>,
     shark     |-> <<Ability("blood_frenzy_ability", StrongRate, 0, FALSE),
                     Ability("bite", OtherRate, 2, FALSE)>>,
     owl       |-> <<Ability("foresight", OtherRate, 2, FALSE),
                     Ability("silent_strike", OtherRate, 0, FALSE)>>,
     fox       |-> <<Ability("evasion", OtherRate, 3, FALSE),
                     Ability("trick", OtherRate, 0, FALSE)>>,
     scorpion  |-> <<Ability("sting", OtherRate, 0, FALSE),
                     Ability("exoskeleton", OtherRate, 0, FALSE)>>]

AllAbilities ==
    { ANIMAL_ABILITIES[an][i] : an \in Animals, i \in 1..2 }

SingleChargeTypes ==
    { ab.ability_type : ab \in { x \in AllAbilities : x.is_single_charge } }

MIMIC_BLOCKED == {"iron_will", "last_stand", "mimic"}

Pos(r, c) == [row |-> r, col |-> c]
Size(r, c) == [rows |-> r, cols |-> c]

\* Position is a dataclass with order=True: compared as (row, col).
PosLess(p, q) == p.row < q.row \/ (p.row = q.row /\ p.col < q.col)

(***************************************************************************)
(* Build validation (animals.py StatBlock, baselines.py Build,             *)
(* __main__.py _parse_build)                                               *)
(***************************************************************************)
StatNames == <<"hp", "atk", "spd", "wil">>

\* A StatBlock that checks the sum only (a variant of StatBlockNew)
StatBlockSumOnly(hp, atk, spd, wil) ==
    LET st == [hp |-> hp, atk |-> atk, spd |-> spd, wil |-> wil]
    IN  IF hp + atk + spd + wil # 20
        THEN [ok |-> FALSE, error |-> "sum", stats |-> st]
        ELSE [ok |-> TRUE, error |-> "", stats |-> st]

\* StatBlock.__post_init__: the minimum of each stat is checked first, then the sum.
\* The result is the constructed object (fields as given) or the error raised.
StatBlockNew(hp, atk, spd, wil) ==
    LET st == [hp |-> hp, atk |-> atk, spd |-> spd, wil |-> wil]
        low == { i \in 1..4 : st[StatNames[i]] < 1 }
    IN  IF low # {} THEN [ok |-> FALSE, error |-> "min", stats |-> st]
        ELSE IF hp + atk + spd + wil # StatTotal
             THEN [ok |-> FALSE, error |-> "sum", stats |-> st]
             ELSE [ok |-> TRUE, error |-> "", stats |-> st]

\* Build.__post_init__: the sum is checked first, then each minimum.
BuildNew(animal, hp, atk, spd, wil) ==
    LET st == [hp |-> hp, atk |-> atk, spd |-> spd, wil |-> wil]
    IN  IF hp + atk + spd + wil # StatTotal
        THEN [ok |-> FALSE, error |-> "sum", animal |-> animal, stats |-> st]
        ELSE IF \E i \in 1..4 : st[StatNames[i]] < 1
             THEN [ok |-> FALSE, error |-> "min", animal |-> animal, stats |-> st]
             ELSE [ok |-> TRUE, error |-> "", animal |-> animal, stats |-> st]

\* int(token) for a token of the build string: an optional sign followed by
\* decimal digits; a token with another character among those drawn here raises
\* ValueError.  Tokens are sequences of one-character strings.
Digits == <<"0", "1", "2", "3", "4", "5", "6", "7", "8", "9">>
IsDigit(ch) == \E i \in 1..10 : Digits[i] = ch
DigitValue(ch) == (CHOOSE i \in 1..10 : Digits[i] = ch) - 1

RECURSIVE DigitsValue(_, _)
DigitsValue(tok, acc) ==
    IF tok = <<>> THEN acc
    ELSE DigitsValue(Tail(tok), 10 * acc + DigitValue(Head(tok)))

ParseInt(tok) ==
    LET signed == tok # <<>> /\ Head(tok) \in {"-", "+"}
        body   == IF signed THEN Tail(tok) ELSE tok
    IN  IF body = <<>> \/ \E i \in 1..Len(body) : ~IsDigit(body[i])
        THEN [ok |-> FALSE, value |-> 0]
        ELSE [ok |-> TRUE,
              value |-> IF signed /\ Head(tok) = "-"
                        THEN 0 - DigitsValue(body, 0) ELSE DigitsValue(body, 0)]

\* _parse_build on the already split parts: the animal name, then four tokens.
ParseBuild(parts) ==
    IF Len(parts) # 5 THEN [ok |-> FALSE, error |-> "parts"]
    ELSE IF parts[1] \notin Animals THEN [ok |-> FALSE, error |-> "animal"]
    ELSE LET n == [i \in 1..4 |-> ParseInt(parts[i + 1])]
         IN  IF \E i \in 1..4 : ~n[i].ok THEN [ok |-> FALSE, error |-> "int"]
             ELSE IF n[1].value + n[2].value + n[3].value + n[4].value # StatTotal
                  THEN [ok |-> FALSE, error |-> "sum"]
                  ELSE IF \E i \in 1..4 : n[i].value < 1
                       THEN [ok |-> FALSE, error |-> "min"]
                       ELSE [ok |-> TRUE, error |-> "", animal |-> parts[1],
                             stats |-> [hp |-> n[1].value, atk |-> n[2].value,
                                        spd |-> n[3].value, wil |-> n[4].value]]

(***************************************************************************)
(* Derived stats and creature construction (__main__.py, run_challenge.py) *)
(***************************************************************************)
\* dodge = max(0.0, min(0.30, 0.025 * (spd - 1))), in ppm
DerivedDodge(spd) == Max(0, Min(300000, 25000 * (spd - 1)))

\* resist = min(0.60, wil * 0.033), in ppm
DerivedResist(wil) == Min(600000, 33000 * wil)

\* _compute_derived
ComputeDerived(hp, atk, spd, wil) ==
    [max_hp   |-> 50 + 10 * hp,
     base_dmg |-> (200 + 85 * atk) \div 100,
     dodge    |-> DerivedDodge(spd),
     resist   |-> DerivedResist(wil)]

\* _compute_size
ComputeSize(hp, atk) ==
    IF hp + atk <= 10 THEN Size(1, 1)
    ELSE IF hp + atk <= 12 THEN Size(2, 1)
    ELSE IF hp + atk <= 17 THEN Size(2, 2)
    ELSE Size(3, 2)

MovementRange(spd) == IF spd <= 3 THEN 1 ELSE IF spd <= 6 THEN 2 ELSE 3

\* A variant that starts both sides on the edge of row 0
GenerateStartingPositionSameEdge(side, size, u) ==
    LET max_col == GridSize - size.cols
        col     == ((u \div 1000) * (max_col * 1000 + 999)) \div 1000000
    IN  Pos(0, Max(0, Min(col, max_col)))

\* Grid.generate_starting_position; u is seeded_random's normalised value (ppm).
\* col = int(u * (max_col + 0.999)), computed here on u cut to per-mille.
GenerateStartingPosition(side, size, u) ==
    LET max_col == GridSize - size.cols
        col     == ((u \div 1000) * (max_col * 1000 + 999)) \div 1000000
        max_row == Min(1, GridSize - size.rows)
        row     == IF side = "a"
                   THEN (IF size.rows >= 2 THEN 0 ELSE max_row)
                   ELSE Max(GridSize - size.rows - 1, GridSize - size.rows)
    IN  Pos(row, Max(0, Min(col, max_col)))

\* _create_creature: a Creature record with every field the engine reads.
\* in_grid is a ghost field: the record is the very object stored in the grid's
\* cells (dataclasses.replace makes a new object, which the grid does not know).
CreateCreature(b, side, u) ==
    LET d    == ComputeDerived(b.hp, b.atk, b.spd, b.wil)
        size == ComputeSize(b.hp, b.atk)
    IN  [animal |-> b.animal,
         stats |-> [hp |-> b.hp, atk |-> b.atk, spd |-> b.spd, wil |-> b.wil],
         passive |-> ANIMAL_PASSIVE[b.animal],
         current_hp |-> d.max_hp,
         max_hp |-> d.max_hp,
         base_dmg |-> d.base_dmg,
         armor_flat |-> 0,
         size |-> size,
         position |-> GenerateStartingPosition(side, size, u),
         active_effects |-> <<>>,
         second_wind_available |-> FALSE,
         second_wind_triggered |-> FALSE,
         charge_used |-> FALSE,
         first_hit_taken |-> FALSE,
         has_rend |-> FALSE,
         has_execute |-> FALSE,
         has_regeneration |-> FALSE,
         dodge_chance |-> d.dodge,
         movement_range |-> MovementRange(b.spd),
         resist_chance |-> d.resist,
         abilities |-> ANIMAL_ABILITIES[b.animal],
         active_buffs |-> <<>>,
         iron_will_used |-> FALSE,
         last_stand_used |-> FALSE,
         last_ability_procced |-> "none",
         skip_next_attack |-> FALSE,
         fury_triggered |-> FALSE,
         fury_active_ticks |-> 0,
         in_grid |-> FALSE]

\* dataclasses.replace(c, ...): a new object; the caller sets the fields.
Replace(c) == [c EXCEPT !.in_grid = FALSE]

\* The fields of a creature record without the ghost field
Fields(c) == [c EXCEPT !.in_grid = FALSE]

(***************************************************************************)
(* Grid (simulator/grid.py)                                                *)
(* cells is a set of [row, col, side, cur]: the cell is held by an object  *)
(* of that side; cur says it is the object most recently placed for the    *)
(* side.  The occupant "is" creature c of side s exactly when the entry is *)
(* the side's, cur is set and c.in_grid holds.                             *)
(***************************************************************************)
\* Grid.is_valid_position
IsValidPosition(p, size) ==
    /\ p.row >= 0 /\ p.col >= 0
    /\ p.row + size.rows <= GridSize
    /\ p.col + size.cols <= GridSize

\* Grid.get_occupied_cells
OccupiedCells(p, size) ==
    { Pos(p.row + dr, p.col + dc) : dr \in 0..(size.rows - 1), dc \in 0..(size.cols - 1) }

\* Grid.get_distance (Chebyshev)
Distance(p, q) == Max(Abs(p.row - q.row), Abs(p.col - q.col))

EntryAt(g, p) == { e \in g : e.row = p.row /\ e.col = p.col }

\* "occupant is creature": identity of the stored object and c (of side s)
IsObject(e, c, s) == e.side = s /\ e.cur /\ c.in_grid

\* Grid.place_creature: the error cases
PlaceFails(g, c, s) ==
    \/ ~IsValidPosition(c.position, c.size)
    \/ \E p \in OccupiedCells(c.position, c.size) :
          \E e \in EntryAt(g, p) : ~IsObject(e, c, s)

\* Grid.place_creature when it succeeds: the cells now hold c.  Entries of an
\* earlier object of the side stop being current.
PlaceCells(g, c, s) ==
    LET mine == OccupiedCells(c.position, c.size)
        kept == { e \in g : Pos(e.row, e.col) \notin mine }
        aged == IF c.in_grid THEN kept
                ELSE { IF e.side = s THEN [e EXCEPT !.cur = FALSE] ELSE e : e \in kept }
    IN  aged \cup { [row |-> p.row, col |-> p.col, side |-> s, cur |-> TRUE] : p \in mine }

\* Grid.remove_creature: only cells whose occupant is this very object go.
RemoveCells(g, c, s) ==
    LET mine == OccupiedCells(c.position, c.size)
    IN  { e \in g : ~(Pos(e.row, e.col) \in mine /\ IsObject(e, c, s)) }

\* Grid._is_position_free(pos, size, exclude=c)
IsPositionFree(g, p, size, c, s) ==
    /\ IsValidPosition(p, size)
    /\ \A q \in OccupiedCells(p, size) :
          \A e \in EntryAt(g, q) : IsObject(e, c, s)

\* Grid.move_creature: the three error cases, in the order of the code
MoveFailsWithoutRange(g, c, s, target) ==
    \/ ~IsValidPosition(target, c.size)
    \/ \E p \in OccupiedCells(target, c.size) :
          \E e \in EntryAt(g, p) : ~IsObject(e, c, s)
MoveFails(g, c, s, target) ==
    \/ Distance(c.position, target) > c.movement_range
    \/ ~IsValidPosition(target, c.size)
    \/ \E p \in OccupiedCells(target, c.size) :
          \E e \in EntryAt(g, p) : ~IsObject(e, c, s)

\* Grid.place_creature as a call: the cells afterwards and whether it raised
PlaceCreature(g, c, s) ==
    IF PlaceFails(g, c, s) THEN [raised |-> TRUE, cells |-> g]
    ELSE [raised |-> FALSE, cells |-> PlaceCells(g, c, s)]

\* Grid.move_creature as a call: after the checks remove_creature(creature),
\* then place_creature of the copy at the target, which may raise in turn
MoveCreature(g, c, s, target) ==
    IF MoveFails(g, c, s, target) THEN [raised |-> TRUE, cells |-> g]
    ELSE PlaceCreature(RemoveCells(g, c, s),
                       [c EXCEPT !.position = target, !.in_grid = FALSE], s)

\* Grid.find_path_toward.  The double loop over (dr, dc), in the order of
\* the loop: candidate k of the (2m+1) x (2m+1) square replaces best_pos when it
\* is in range and free and is nearer to the target, or as near and smaller as
\* a Position (row, then col).  best_dist is the distance from best_pos.
PathCandidate(c, k) ==
    Pos(c.position.row + (k \div (2 * c.movement_range + 1)) - c.movement_range,
        c.position.col + (k % (2 * c.movement_range + 1)) - c.movement_range)

\* The tests of the loop body that skip a candidate
PathSkips(g, c, s, cand) ==
    \/ cand = c.position
    \/ Distance(c.position, cand) > c.movement_range
    \/ ~IsPositionFree(g, cand, c.size, c, s)

RECURSIVE PathLoop(_, _, _, _, _, _)
PathLoop(g, c, s, target, k, best_pos) ==
    IF k = (2 * c.movement_range + 1) * (2 * c.movement_range + 1) THEN best_pos
    ELSE IF PathSkips(g, c, s, PathCandidate(c, k))
         THEN PathLoop(g, c, s, target, k + 1, best_pos)
    ELSE IF Distance(PathCandidate(c, k), target) < Distance(best_pos, target)
         THEN PathLoop(g, c, s, target, k + 1, PathCandidate(c, k))
    ELSE IF /\ Distance(PathCandidate(c, k), target) = Distance(best_pos, target)
            /\ PosLess(PathCandidate(c, k), best_pos)
         THEN PathLoop(g, c, s, target, k + 1, PathCandidate(c, k))
    ELSE PathLoop(g, c, s, target, k + 1, best_pos)

\* A path that jumps to the target's position (a variant of FindPathToward)
FindPathTowardJump(g, c, s, target) == target

FindPathToward(g, c, s, target) == PathLoop(g, c, s, target, 0, c.position)


(***************************************************************************)
(* Events                                                                  *)
(***************************************************************************)
Event(type, side, ability, amount) ==
    [type |-> type, side |-> side, ability |-> ability, amount |-> amount]

\* AbilityBuff, with the duration it was attached with and the tick of its
\* attachment (0 until the proc phase that attached it has noted the tick)
Buff(t, n, side, copy) ==
    [ability_type |-> t, remaining_ticks |-> n, source_side |-> side, is_mimic_copy |-> copy,
     attached_duration |-> n, attached_tick |-> 0]

\* The buffs attached by the running proc phase get its tick
Stamp(c, t) ==
    [c EXCEPT !.active_buffs =
        [i \in DOMAIN @ |-> IF @[i].attached_tick = 0 THEN [@[i] EXCEPT !.attached_tick = t]
                            ELSE @[i]]]

Effect(name, n, dmg) ==
    [name |-> name, remaining_ticks |-> n, damage_per_tick |-> dmg]

\* seeded_bool(seed, probability): the normalised value is below the probability
SeededBool(u, probability) == u < probability

(***************************************************************************)
(* Ability system (simulator/abilities.py)                                 *)
(***************************************************************************)
\* can_mimic
\* A Mimic without a blocked list (a variant of CanMimic)
CanMimicAnything(t) == TRUE

CanMimic(t) == t \notin MIMIC_BLOCKED

\* The first definition of the tables with this ability type, as _apply_mimic
\* searches it; NoAbility when there is none.
NoAbility == Ability("none", 0, 0, FALSE)
OriginalAbility(t) ==
    IF \E ab \in AllAbilities : ab.ability_type = t
    THEN CHOOSE ab \in AllAbilities : ab.ability_type = t
    ELSE NoAbility

\* _find_trick_buff_index: index of the first Trick buff, 0 when there is none
FindTrickBuffIndex(c) ==
    IF \E i \in 1..Len(c.active_buffs) : c.active_buffs[i].ability_type = "trick"
    THEN CHOOSE i \in 1..Len(c.active_buffs) :
            /\ c.active_buffs[i].ability_type = "trick"
            /\ \A j \in 1..(i - 1) : c.active_buffs[j].ability_type # "trick"
    ELSE 0

RemoveAt(sq, i) == [j \in 1..(Len(sq) - 1) |-> IF j < i THEN sq[j] ELSE sq[j + 1]]

\* _apply_mimic: copy the opponent's last procced ability as a mimic buff
ApplyMimic(c, o, side) ==
    LET target   == o.last_ability_procced
        original == OriginalAbility(target)
        duration == IF original.duration > 0 THEN Max(1, original.duration) ELSE 1
    IN  IF target = "none" \/ ~CanMimic(target) THEN c
        ELSE IF original = NoAbility THEN c
        ELSE [Replace(c) EXCEPT
                 !.active_buffs = Append(c.active_buffs, Buff(target, duration, side, TRUE))]

\* The duration buffs with Trick among them, which then lasts as its table
\* entry says (a variant of SelfDurationBuffs)
SelfDurationBuffsAndTrick ==
    {"berserker_rage", "thick_hide_ability", "pack_howl", "keen_eye", "evasion", "trick"}
SelfDurationBuffs == {"berserker_rage", "thick_hide_ability", "pack_howl", "keen_eye", "evasion"}
NextHitBuffs == {"pounce", "chaos_strike", "gore", "stampede", "last_stand", "dive"}
OneTickBuffs == {"coil", "trick", "exoskeleton"}

\* Bookkeeping that never marks a charge as used (a variant of MarkUsed)
MarkNothing(c, ability) == c

\* The single-charge bookkeeping at the head of _apply_ability_proc
MarkUsed(c, ability) ==
    IF ~ability.is_single_charge THEN c
    ELSE IF ability.ability_type = "iron_will"
         THEN [Replace(c) EXCEPT !.iron_will_used = TRUE]
    ELSE IF ability.ability_type = "last_stand"
         THEN [Replace(c) EXCEPT !.last_stand_used = TRUE]
    ELSE c

\* The poison effects a creature carries, and the test of _apply_ability_proc
\* that one more may be added
ExistingVenoms(o) == SelectSeq(o.active_effects, LAMBDA e : e.name = "ability_venom")
VenomFitsBelowFive(o) == Len(ExistingVenoms(o)) < 5
VenomFits(o) == Len(ExistingVenoms(o)) < 3

\* An Iron Will heal without the cap at max_hp (a variant of IronWillHp)
IronWillHpUncapped(c) == c.current_hp + (c.max_hp * 12) \div 100

\* The HP after an Iron Will proc: heal = floor(max_hp * 0.12), new_hp =
\* min(max_hp, current_hp + heal)
IronWillHp(c) == Min(c.max_hp, c.current_hp + (c.max_hp * 12) \div 100)

\* _apply_ability_proc: the effect of one proc on (creature, opponent) and the
\* ability_proc event it logs.
ApplyAbilityProc(c0, o, ability, side) ==
    LET t == ability.ability_type
        c == MarkUsed(c0, ability)
        pair ==
          IF t \in SelfDurationBuffs THEN
            <<[Replace(c) EXCEPT !.active_buffs =
                  Append(c.active_buffs, Buff(t, ability.duration, side, FALSE))], o>>
          ELSE IF t \in NextHitBuffs THEN
            <<[Replace(c) EXCEPT !.active_buffs =
                  Append(c.active_buffs, Buff(t, 1, side, FALSE))],
              IF t \in {"stampede", "pounce"}
              THEN [Replace(o) EXCEPT !.skip_next_attack = TRUE] ELSE o>>
          ELSE IF t \in OneTickBuffs THEN
            <<[Replace(c) EXCEPT !.active_buffs =
                  Append(c.active_buffs, Buff(t, 1, side, FALSE))], o>>
          ELSE IF t = "iron_will" THEN
            <<[Replace(c) EXCEPT !.current_hp = IronWillHp(c)], o>>
          ELSE IF t = "hamstring" THEN
            <<c, [Replace(o) EXCEPT !.active_buffs =
                     Append(o.active_buffs, Buff(t, ability.duration, side, FALSE))]>>
          ELSE IF t = "rend_ability" THEN
            <<c, [Replace(o) EXCEPT !.active_effects =
                     Append(o.active_effects,
                            Effect("ability_rend", 3, Max(1, (c.max_hp * 5) \div 100)))]>>
          ELSE IF t = "venom" THEN
            <<c, IF VenomFits(o)
                 THEN [Replace(o) EXCEPT !.active_effects =
                          Append(o.active_effects,
                                 Effect("ability_venom", 3, Max(1, (o.max_hp * 3) \div 100)))]
                 ELSE o>>
          ELSE IF t = "sting" THEN
            <<c, [Replace(o) EXCEPT !.skip_next_attack = TRUE]>>
          ELSE IF t = "mimic" THEN
            <<ApplyMimic(c, o, side), o>>
          ELSE <<c, o>>
    IN  [c |-> pair[1], o |-> pair[2],
         ev |-> Event("ability_proc", side, t, ability.duration)]

\* Which abilities the loop of roll_ability_procs skips before rolling
SkipsRoll(c, ability) ==
    \/ /\ ability.is_single_charge
       /\ \/ (ability.ability_type = "iron_will" /\ c.iron_will_used)
          \/ (ability.ability_type = "last_stand" /\ c.last_stand_used)
    \/ /\ ability.ability_type = "last_stand"
       /\ 100 * c.current_hp >= 15 * c.max_hp

\* eff_proc = ability.proc_chance + creature.stats.wil * 0.0008
EffProc(c, ability) == ability.proc_chance + c.stats.wil * 800

\* wil_resist_chance = min(0.60, opponent.stats.wil * 0.033)
WilResistChance(o) == Min(600000, o.stats.wil * 33000)

\* An iteration that tests the opponent's Trick buff before the resist roll (a
\* variant of ProcStep)
ProcStepReflectFirst(st, i, side, d) ==
    LET ability == st.c.abilities[i]
        trick   == FindTrickBuffIndex(st.o)
        applied == ApplyAbilityProc(st.c, st.o, ability, side)
        roll    == [side |-> side, ability |-> ability.ability_type,
                    used |-> (st.c.iron_will_used /\ ability.ability_type = "iron_will")
                             \/ (st.c.last_stand_used /\ ability.ability_type = "last_stand"),
                    hp |-> st.c.current_hp, max_hp |-> st.c.max_hp]
    IN  IF SkipsRoll(st.c, ability) THEN st
        ELSE IF ~SeededBool(d.proc[i], EffProc(st.c, ability))
             THEN [st EXCEPT !.made = @ \cup {roll}]
        ELSE IF trick # 0
             THEN [st EXCEPT
                     !.o = [Replace(st.o) EXCEPT !.active_buffs = RemoveAt(st.o.active_buffs, trick)],
                     !.ev = Append(@, Event("trick_reflected", side, ability.ability_type, 0)),
                     !.rolled = @ + 1,
                     !.made = @ \cup {roll}]
        ELSE IF SeededBool(d.resist[i], WilResistChance(st.o))
             THEN [st EXCEPT
                     !.ev = Append(@, Event("ability_resisted", side, ability.ability_type, 0)),
                     !.rolled = @ + 1,
                     !.made = @ \cup {roll}]
        ELSE [st EXCEPT
                 !.c = applied.c,
                 !.o = applied.o,
                 !.ev = Append(@, applied.ev),
                 !.last = ability.ability_type,
                 !.rolled = @ + 1,
                 !.made = @ \cup {roll}]

\* One iteration of the loop of roll_ability_procs for ability number i, on the
\* loop state st = [c, o, ev, last, rolled, made]: rolled counts the proc rolls
\* that succeeded, made holds a record of every proc roll that was drawn (the
\* ability, whether its used flag was set, the creature's HP).  d gives the draws.
ProcStep(st, i, side, d) ==
    LET ability == st.c.abilities[i]
        trick   == FindTrickBuffIndex(st.o)
        applied == ApplyAbilityProc(st.c, st.o, ability, side)
        roll    == [side |-> side, ability |-> ability.ability_type,
                    used |-> (st.c.iron_will_used /\ ability.ability_type = "iron_will")
                             \/ (st.c.last_stand_used /\ ability.ability_type = "last_stand"),
                    hp |-> st.c.current_hp, max_hp |-> st.c.max_hp]
    IN  IF SkipsRoll(st.c, ability) THEN st
        ELSE IF ~SeededBool(d.proc[i], EffProc(st.c, ability))
             THEN [st EXCEPT !.made = @ \cup {roll}]
        ELSE IF SeededBool(d.resist[i], WilResistChance(st.o))
             THEN [st EXCEPT
                     !.ev = Append(@, Event("ability_resisted", side, ability.ability_type, 0)),
                     !.rolled = @ + 1,
                     !.made = @ \cup {roll}]
        ELSE IF trick # 0
             THEN [st EXCEPT
                     !.o = [Replace(st.o) EXCEPT !.active_buffs = RemoveAt(st.o.active_buffs, trick)],
                     !.ev = Append(@, Event("trick_reflected", side, ability.ability_type, 0)),
                     !.rolled = @ + 1,
                     !.made = @ \cup {roll}]
        ELSE [st EXCEPT
                 !.c = applied.c,
                 !.o = applied.o,
                 !.ev = Append(@, applied.ev),
                 !.last = ability.ability_type,
                 !.rolled = @ + 1,
                 !.made = @ \cup {roll}]

RECURSIVE ProcLoop(_, _, _, _)
ProcLoop(st, i, side, d) ==
    IF i > Len(st.c.abilities) THEN st
    ELSE ProcLoop(ProcStep(st, i, side, d), i + 1, side, d)

\* roll_ability_procs
RollAbilityProcs(c, o, side, events, d) ==
    LET Finish(st) ==
            IF st.last # "none"
            THEN [st EXCEPT !.c = [Replace(st.c) EXCEPT !.last_ability_procced = st.last]]
            ELSE st
    IN  Finish(ProcLoop([c |-> c, o |-> o, ev |-> events, last |-> "none",
                         rolled |-> 0, made |-> {}], 1, side, d))

\* apply_ability_attack_mods: atk_mod in units of 1/ONE; chaos is the normalised
\* draw for get_chaos_strike_mod(hit_seed + 777).
MimicScale(buff, full, copy) == IF buff.is_mimic_copy THEN copy ELSE full

\* get_chaos_strike_mod: seeded_random(seed, 0.8, 2.2)
GetChaosStrikeMod(u) == 8000 + (u * 14) \div 1000

\* A loop in which Chaos Strike multiplies like the other buffs (a variant of
\* AttackModLoop)
RECURSIVE AttackModLoopStacking(_, _, _, _)
AttackModLoopStacking(c, i, atk_mod, chaos) ==
    IF i > Len(c.active_buffs) THEN atk_mod
    ELSE LET buff == c.active_buffs[i]
             t    == buff.ability_type
             cm   == GetChaosStrikeMod(chaos)
             m    == IF t = "pack_howl" THEN (atk_mod * MimicScale(buff, 1300, 1225)) \div 1000
                     ELSE IF t = "pounce" THEN (atk_mod * MimicScale(buff, 1700, 1525)) \div 1000
                     ELSE IF t = "stampede" THEN (atk_mod * MimicScale(buff, 1500, 1375)) \div 1000
                     ELSE IF t = "last_stand" THEN
                          (IF 100 * c.current_hp < 15 * c.max_hp
                           THEN (atk_mod * MimicScale(buff, 2000, 1750)) \div 1000
                           ELSE atk_mod)
                     ELSE IF t = "gore" THEN (atk_mod * 600) \div 1000
                     ELSE IF t = "chaos_strike" THEN
                          (atk_mod * (IF buff.is_mimic_copy THEN ONE + ((cm - ONE) * 3) \div 4
                                      ELSE cm)) \div ONE
                     ELSE IF t = "dive" THEN (atk_mod * MimicScale(buff, 2000, 1750)) \div 1000
                     ELSE atk_mod
         IN  AttackModLoopStacking(c, i + 1, m, chaos)

RECURSIVE AttackModLoop(_, _, _, _)
AttackModLoop(c, i, atk_mod, chaos) ==
    IF i > Len(c.active_buffs) THEN atk_mod
    ELSE LET buff == c.active_buffs[i]
             t    == buff.ability_type
             cm   == GetChaosStrikeMod(chaos)
             m    == IF t = "pack_howl" THEN (atk_mod * MimicScale(buff, 1300, 1225)) \div 1000
                     ELSE IF t = "pounce" THEN (atk_mod * MimicScale(buff, 1700, 1525)) \div 1000
                     ELSE IF t = "stampede" THEN (atk_mod * MimicScale(buff, 1500, 1375)) \div 1000
                     ELSE IF t = "last_stand" THEN
                          (IF 100 * c.current_hp < 15 * c.max_hp
                           THEN (atk_mod * MimicScale(buff, 2000, 1750)) \div 1000
                           ELSE atk_mod)
                     ELSE IF t = "gore" THEN (atk_mod * 600) \div 1000
                     ELSE IF t = "chaos_strike" THEN
                          (IF buff.is_mimic_copy THEN ONE + ((cm - ONE) * 3) \div 4 ELSE cm)
                     ELSE IF t = "dive" THEN (atk_mod * MimicScale(buff, 2000, 1750)) \div 1000
                     ELSE atk_mod
         IN  AttackModLoop(c, i + 1, m, chaos)

ApplyAbilityAttackMods(c, atk_mod, chaos) == AttackModLoop(c, 1, atk_mod, chaos)

HasBuff(c, t) == \E i \in 1..Len(c.active_buffs) : c.active_buffs[i].ability_type = t

\* A test that knows Pounce alone (a variant of HasIgnoreDodgeBuff)
HasPounceBuffOnly(c) ==
    \E i \in 1..Len(c.active_buffs) : c.active_buffs[i].ability_type = "pounce"

\* has_ignore_dodge_buff
HasIgnoreDodgeBuff(c) ==
    \E i \in 1..Len(c.active_buffs) :
        c.active_buffs[i].ability_type \in {"pounce", "gore", "dive"}

\* get_effective_dodge (ppm): the three passes over the buffs after the Coil check
RECURSIVE DodgeAdd(_, _, _)
DodgeAdd(bs, i, dodge) ==
    IF i > Len(bs) THEN dodge
    ELSE DodgeAdd(bs, i + 1,
            IF bs[i].ability_type = "keen_eye" THEN dodge + MimicScale(bs[i], 200000, 150000)
            ELSE IF bs[i].ability_type = "evasion" THEN dodge + MimicScale(bs[i], 500000, 375000)
            ELSE dodge)

RECURSIVE DodgeRage(_, _, _)
DodgeRage(bs, i, dodge) ==
    IF i > Len(bs) THEN dodge
    ELSE DodgeRage(bs, i + 1,
            IF bs[i].ability_type = "berserker_rage"
            THEN (dodge * MimicScale(bs[i], 6, 7)) \div 10
            ELSE dodge)

RECURSIVE DodgeHamstring(_, _, _)
DodgeHamstring(bs, i, dodge) ==
    IF i > Len(bs) THEN dodge
    ELSE DodgeHamstring(bs, i + 1,
            IF bs[i].ability_type = "hamstring"
            THEN (IF bs[i].is_mimic_copy THEN (dodge * 47) \div 80 ELSE (dodge * 9) \div 20)
                 - MimicScale(bs[i], 100000, 75000)
            ELSE dodge)

\* A variant that returns the dodge chance as computed, without the clamp
GetEffectiveDodgeUnclamped(c) ==
    IF HasBuff(c, "coil") THEN PPM
    ELSE LET bs == c.active_buffs
         IN  DodgeHamstring(bs, 1, DodgeRage(bs, 1, DodgeAdd(bs, 1, c.dodge_chance)))

GetEffectiveDodge(c) ==
    IF HasBuff(c, "coil") THEN PPM
    ELSE LET bs == c.active_buffs
         IN  Max(0, Min(PPM,
                 DodgeHamstring(bs, 1, DodgeRage(bs, 1, DodgeAdd(bs, 1, c.dodge_chance)))))

\* apply_ability_defense: Thick Hide blocks the hit, else Exoskeleton absorbs up
\* to 15% of max_hp; every buff of the kind used is removed.
ApplyAbilityDefense(c, dmg) ==
    IF HasBuff(c, "thick_hide_ability")
    THEN [c |-> [Replace(c) EXCEPT !.active_buffs =
                    SelectSeq(c.active_buffs, LAMBDA b : b.ability_type # "thick_hide_ability")],
          dmg |-> 0]
    ELSE IF HasBuff(c, "exoskeleton")
    THEN [c |-> [Replace(c) EXCEPT !.active_buffs =
                    SelectSeq(c.active_buffs, LAMBDA b : b.ability_type # "exoskeleton")],
          dmg |-> Max(0, dmg - (c.max_hp * 15) \div 100)]
    ELSE [c |-> c, dmg |-> dmg]

\* check_fury_trigger
CheckFuryTrigger(c) ==
    IF c.passive # "fury_protocol" THEN c
    ELSE IF c.fury_triggered THEN c
    ELSE IF 2 * c.current_hp >= c.max_hp THEN c
    ELSE [Replace(c) EXCEPT !.fury_triggered = TRUE, !.fury_active_ticks = 3]

\* tick_fury
TickFury(c) ==
    IF c.fury_active_ticks <= 0 THEN c
    ELSE [Replace(c) EXCEPT !.fury_active_ticks = c.fury_active_ticks - 1]

\* A decay that drops a buff one tick later, once its counter is below zero (a
\* variant of TickAbilityBuffs)
TickAbilityBuffsLate(c) ==
    IF c.active_buffs = <<>> THEN c
    ELSE LET dec == [i \in 1..Len(c.active_buffs) |->
                        [c.active_buffs[i] EXCEPT !.remaining_ticks = @ - 1]]
         IN  [Replace(c) EXCEPT !.active_buffs =
                 SelectSeq(dec, LAMBDA b : b.remaining_ticks >= 0)]

\* tick_ability_buffs
TickAbilityBuffs(c) ==
    IF c.active_buffs = <<>> THEN c
    ELSE LET dec == [i \in 1..Len(c.active_buffs) |->
                        [c.active_buffs[i] EXCEPT !.remaining_ticks = @ - 1]]
         IN  [Replace(c) EXCEPT !.active_buffs =
                 SelectSeq(dec, LAMBDA b : b.remaining_ticks > 0)]


(***************************************************************************)
(* Combat engine (simulator/engine.py)                                     *)
(***************************************************************************)
NoResult == [winner |-> "pending", ticks |-> 0, end_condition |-> "pending",
             final_hp_a |-> 0, final_hp_b |-> 0]

\* An initiative whose jitter ranges over [0, 1.49) (a variant of
\* CalculateInitiative)
CalculateInitiativeWideJitter(spd, u) == spd * PPM + (u * 149) \div 100

\* calculate_initiative: spd + seeded_random(seed, 0.0, 0.49), in ppm
CalculateInitiative(spd, u) == spd * PPM + (u * 49) \div 100

\* An order that gives an exact tie to side b (a variant of TurnOrder)
TurnOrderTieToB(init_a, init_b) == IF init_a > init_b THEN <<"a", "b">> ELSE <<"b", "a">>

\* The order of the two sides for the tick (run_combat, after the initiatives)
TurnOrder(init_a, init_b) == IF init_a >= init_b THEN <<"a", "b">> ELSE <<"b", "a">>

\* CombatEngine._is_adjacent
IsAdjacentWithinTwo(x, y) ==
    \E p \in OccupiedCells(x.position, x.size), q \in OccupiedCells(y.position, y.size) :
        Distance(p, q) <= 2

IsAdjacent(x, y) ==
    \E p \in OccupiedCells(x.position, x.size), q \in OccupiedCells(y.position, y.size) :
        Distance(p, q) <= 1

\* calculate_physical_damage; dodge_u and eps_u are the normalised draws for
\* seeded_random(dodge_seed) and seeded_random(hit_seed + 1).
CalculatePhysicalDamage(att, target, atk_mod, ignore_dodge, effective_dodge, dodge_u, eps_u) ==
    LET raw   == (att.base_dmg * atk_mod) \div ONE
        armor == Min(target.armor_flat, raw \div 2)
        after == Max(1, raw - armor)
        final == (after * (950000 + eps_u \div 10)) \div PPM
    IN  IF ~ignore_dodge /\ effective_dodge > 0 /\ dodge_u < effective_dodge
        THEN 0
        ELSE Max(1, final)

\* The factor Fury and Berserker Rage contribute together: the larger one.
RECURSIVE RageLoop(_, _, _)
RageLoop(bs, i, m) ==
    IF i > Len(bs) THEN m
    ELSE RageLoop(bs, i + 1,
            IF bs[i].ability_type = "berserker_rage"
            THEN Max(m, MimicScale(bs[i], 16000, 14500))
            ELSE m)

\* The fury test of CombatEngine._apply_attack_passives
FuryInEffect(att) == att.passive = "fury_protocol" /\ att.fury_active_ticks > 0

\* A variant that multiplies the fury factor and the strongest rage factor
FuryTimesRage(att) ==
    ((IF FuryInEffect(att) THEN 15000 ELSE ONE) * RageLoop(att.active_buffs, 1, ONE)) \div ONE

FuryOrRageMod(att) ==
    RageLoop(att.active_buffs, 1, IF FuryInEffect(att) THEN 15000 ELSE ONE)

\* A variant that gives the first-strike bonus without using up the flag
ApplyAttackPassivesKeepFlag(att, def, atk_mod) ==
    LET fr == FuryOrRageMod(att)
        m1 == IF fr > ONE THEN (atk_mod * (fr \div 10)) \div 1000 ELSE atk_mod
        charge == att.passive = "charge" /\ ~att.charge_used
        m2 == IF charge THEN (m1 * 1500) \div 1000 ELSE m1
        a2 == IF charge THEN Replace(att) ELSE att
        ambush == /\ a2.passive = "ambush_wiring" /\ ~a2.charge_used
                  /\ a2.stats.spd > def.stats.spd
        m3 == IF ambush THEN (m2 * 2000) \div 1000 ELSE m2
        a3 == IF ambush THEN [Replace(a2) EXCEPT !.charge_used = TRUE] ELSE a2
        m4 == IF a3.has_execute /\ 4 * def.current_hp < def.max_hp
              THEN (m3 * 2000) \div 1000 ELSE m3
    IN  [c |-> a3, atk_mod |-> m4, charged |-> charge]

\* CombatEngine._apply_attack_passives
ApplyAttackPassives(att, def, atk_mod) ==
    LET fr == FuryOrRageMod(att)
        m1 == IF fr > ONE THEN (atk_mod * (fr \div 10)) \div 1000 ELSE atk_mod
        charge == att.passive = "charge" /\ ~att.charge_used
        m2 == IF charge THEN (m1 * 1500) \div 1000 ELSE m1
        a2 == IF charge THEN [Replace(att) EXCEPT !.charge_used = TRUE] ELSE att
        ambush == /\ a2.passive = "ambush_wiring" /\ ~a2.charge_used
                  /\ a2.stats.spd > def.stats.spd
        m3 == IF ambush THEN (m2 * 2000) \div 1000 ELSE m2
        a3 == IF ambush THEN [Replace(a2) EXCEPT !.charge_used = TRUE] ELSE a2
        m4 == IF a3.has_execute /\ 4 * def.current_hp < def.max_hp
              THEN (m3 * 2000) \div 1000 ELSE m3
    IN  [c |-> a3, atk_mod |-> m4, charged |-> charge]

\* A variant that halves a hit without using up the flag
ApplyDefensePassivesKeepFlag(def, dmg) ==
    IF def.passive = "thick_hide" /\ ~def.first_hit_taken
    THEN [c |-> Replace(def), dmg |-> Max(1, dmg \div 2),
          halved |-> TRUE]
    ELSE [c |-> def, dmg |-> dmg, halved |-> FALSE]

\* CombatEngine._apply_defense_passives
ApplyDefensePassives(def, dmg) ==
    IF def.passive = "thick_hide" /\ ~def.first_hit_taken
    THEN [c |-> [Replace(def) EXCEPT !.first_hit_taken = TRUE], dmg |-> Max(1, dmg \div 2),
          halved |-> TRUE]
    ELSE [c |-> def, dmg |-> dmg, halved |-> FALSE]

\* CombatEngine._process_dot
ProcessDot(c, side, events) ==
    IF c.active_effects = <<>> THEN [c |-> c, ev |-> events]
    ELSE LET effs == c.active_effects
             RECURSIVE Total(_)
             Total(i) == IF i > Len(effs) THEN 0
                         ELSE (IF effs[i].damage_per_tick > 0
                               THEN effs[i].damage_per_tick ELSE 0) + Total(i + 1)
             total_dot == Total(1)
             dec == [i \in 1..Len(effs) |-> [effs[i] EXCEPT !.remaining_ticks = @ - 1]]
             remaining == SelectSeq(dec, LAMBDA e : e.remaining_ticks > 0)
         IN  IF total_dot > 0
             THEN [c |-> [Replace(c) EXCEPT !.current_hp = c.current_hp - total_dot,
                                            !.active_effects = remaining],
                   ev |-> Append(events, Event("dot", side, "", total_dot))]
             ELSE [c |-> [Replace(c) EXCEPT !.active_effects = remaining], ev |-> events]

\* CombatEngine._get_ring_damage
GetRingDamage(t, cfg, max_hp) ==
    IF t < cfg.ring_start_tick THEN 0 ELSE Max(1, (max_hp * 2) \div 100)

\* The safe rectangle of CombatEngine._is_in_ring at offset = tick - ring_start_tick
SafeMin(offset) == IF offset <= 4 THEN 1 ELSE 2
SafeMax(offset) == IF offset <= 4 THEN 6 ELSE 5

\* A hazard test that looks at the creature's position cell only (a variant of
\* IsInRing)
IsInRingByPosition(c, t, cfg) ==
    /\ t >= cfg.ring_start_tick
    /\ LET lo == SafeMin(t - cfg.ring_start_tick)
           hi == SafeMax(t - cfg.ring_start_tick)
       IN  c.position.row < lo \/ c.position.row > hi
           \/ c.position.col < lo \/ c.position.col > hi

\* CombatEngine._is_in_ring
IsInRing(c, t, cfg) ==
    /\ t >= cfg.ring_start_tick
    /\ \E p \in OccupiedCells(c.position, c.size) :
          LET lo == SafeMin(t - cfg.ring_start_tick)
              hi == SafeMax(t - cfg.ring_start_tick)
          IN  p.row < lo \/ p.row > hi \/ p.col < lo \/ p.col > hi

\* One side's part of CombatEngine._apply_ring_damage
RingSide(c, side, t, cfg, events) ==
    IF IsInRing(c, t, cfg)
    THEN [c |-> [Replace(c) EXCEPT !.current_hp = c.current_hp - GetRingDamage(t, cfg, c.max_hp)],
          ev |-> Append(events, Event("ring_damage", side, "", GetRingDamage(t, cfg, c.max_hp)))]
    ELSE [c |-> c, ev |-> events]

\* A second wind that does not look whether the creature is alive (a variant
\* of TrySecondWind)
TrySecondWindOfTheDead(c, side, events) ==
    IF /\ c.second_wind_available /\ ~c.second_wind_triggered
       /\ 10 * c.current_hp < 3 * c.max_hp
    THEN [c |-> [Replace(c) EXCEPT
                    !.current_hp = Min(c.max_hp, c.current_hp + (c.max_hp * 25) \div 100),
                    !.second_wind_triggered = TRUE],
          ev |-> Append(events, Event("second_wind", side, "", (c.max_hp * 25) \div 100))]
    ELSE [c |-> c, ev |-> events]

\* CombatEngine._try_second_wind
TrySecondWind(c, side, events) ==
    IF /\ c.second_wind_available /\ ~c.second_wind_triggered
       /\ c.current_hp > 0 /\ 10 * c.current_hp < 3 * c.max_hp
    THEN [c |-> [Replace(c) EXCEPT
                    !.current_hp = Min(c.max_hp, c.current_hp + (c.max_hp * 25) \div 100),
                    !.second_wind_triggered = TRUE],
          ev |-> Append(events, Event("second_wind", side, "", (c.max_hp * 25) \div 100))]
    ELSE [c |-> c, ev |-> events]

\* One side's part of CombatEngine._apply_regeneration: heal is hard-coded to 0
RegenHeal == 0
RegenSide(c, side, events) ==
    LET new_hp == Min(c.max_hp, c.current_hp + RegenHeal)
    IN  IF c.has_regeneration /\ c.current_hp > 0 /\ new_hp # c.current_hp
        THEN [c |-> [Replace(c) EXCEPT !.current_hp = new_hp],
              ev |-> Append(events, Event("regeneration", side, "", RegenHeal))]
        ELSE [c |-> c, ev |-> events]

\* Variants of the two resolutions: by the HP at the end of the tick, and by
\* the raw HP instead of the percentage.
ResolveDeathByFinalHp(a, b, hp_a_start, hp_b_start) ==
    IF a.current_hp <= 0 /\ b.current_hp <= 0
    THEN (IF a.current_hp * b.max_hp > b.current_hp * a.max_hp THEN "a"
          ELSE IF b.current_hp * a.max_hp > a.current_hp * b.max_hp THEN "b"
          ELSE "none")
    ELSE IF a.current_hp <= 0 THEN "b"
    ELSE "a"

ResolveTimeoutByRawHp(a, b) ==
    IF a.current_hp > b.current_hp THEN "a"
    ELSE IF b.current_hp > a.current_hp THEN "b"
    ELSE "none"

\* CombatEngine._resolve_death; percentages compared by cross multiplication
ResolveDeath(a, b, hp_a_start, hp_b_start) ==
    IF a.current_hp <= 0 /\ b.current_hp <= 0
    THEN (IF hp_a_start * b.max_hp > hp_b_start * a.max_hp THEN "a"
          ELSE IF hp_b_start * a.max_hp > hp_a_start * b.max_hp THEN "b"
          ELSE "none")
    ELSE IF a.current_hp <= 0 THEN "b"
    ELSE "a"

\* CombatEngine._resolve_timeout
ResolveTimeout(a, b) ==
    IF a.current_hp * b.max_hp > b.current_hp * a.max_hp THEN "a"
    ELSE IF b.current_hp * a.max_hp > a.current_hp * b.max_hp THEN "b"
    ELSE "none"


(***************************************************************************)
(* Draws                                                                   *)
(***************************************************************************)
\* Normalised values seeded_random may return, enough to fall on either side of
\* every threshold the engine compares a draw with.
Rolls == {0, 999999}
NoRoll == {0}
\* The jitter draw: the neutral value (factor 1.0)
EpsRolls == {500000}

Key(kind, t, i, j) == <<kind, t, i, j>>

\* A draw that is no function of its key (a variant of Draw)
UnseededDraw(key, S) == S

\* The values a draw may take: the recorded one when the match is replayed.
Draw(key, S) ==
    IF mode = "second" /\ key \in DOMAIN oracle THEN {oracle[key]} ELSE S

\* The oracle after the draws in made (a function from keys to values)
Recorded(made) ==
    IF mode = "first"
    THEN [k \in DOMAIN oracle \cup DOMAIN made |->
             IF k \in DOMAIN oracle THEN oracle[k] ELSE made[k]]
    ELSE oracle

NoDraws == [k \in {} |-> 0]

(***************************************************************************)
(* Inputs                                                                  *)
(***************************************************************************)
Build(animal, hp, atk, spd, wil) ==
    [animal |-> animal, hp |-> hp, atk |-> atk, spd |-> spd, wil |-> wil]

\* Flags of the Creature record that its constructor's caller may set
PlainFlags == [second_wind_available |-> FALSE, has_rend |-> FALSE,
               has_execute |-> FALSE, has_regeneration |-> FALSE]
WindFlags == [PlainFlags EXCEPT !.second_wind_available = TRUE, !.has_regeneration = TRUE]
RendFlags == [PlainFlags EXCEPT !.has_rend = TRUE, !.has_execute = TRUE]

WithFlags(c, f) ==
    [c EXCEPT !.second_wind_available = f.second_wind_available,
              !.has_rend = f.has_rend,
              !.has_execute = f.has_execute,
              !.has_regeneration = f.has_regeneration]

\* One input of run_combat as the callers build it: both creatures from their
\* builds with the start roll u shared by the two sides, and the config.
Match(ba, fa, bb, fb, u, max_ticks, ring_start) ==
    [a |-> WithFlags(CreateCreature(ba, "a", u), fa),
     b |-> WithFlags(CreateCreature(bb, "b", u), fb),
     cfg |-> [max_ticks |-> max_ticks, ring_start_tick |-> ring_start]]

EarlyRing == 3

Inputs ==
    { Match(Build("boar", 1, 16, 2, 1), PlainFlags, Build("bear", 1, 16, 2, 1), PlainFlags,
            0, MaxTickBudget, EarlyRing),
      Match(Build("owl", 1, 16, 2, 1), RendFlags, Build("owl", 1, 16, 2, 1), RendFlags,
            500000, MaxTickBudget, DefaultRingStart),
      Match(Build("buffalo", 2, 16, 1, 1), WindFlags, Build("monkey", 1, 14, 1, 4), RendFlags,
            0, MaxTickBudget, EarlyRing),
      Match(Build("raven", 1, 9, 1, 9), PlainFlags, Build("monkey", 1, 12, 1, 6), PlainFlags,
            860000, MaxTickBudget - 2, EarlyRing),
      Match(Build("bear", 3, 14, 2, 1), PlainFlags, Build("buffalo", 8, 6, 4, 2), PlainFlags,
            999999, MaxTickBudget - 1, DefaultRingStart),
      Match(Build("crocodile", 17, 1, 1, 1), PlainFlags, Build("shark", 17, 1, 1, 1), PlainFlags,
            500000, MaxTickBudget, 1) }

(***************************************************************************)
(* The state machine of run_combat                                         *)
(***************************************************************************)
NoProcEvents == [s \in Sides |-> [t \in SingleChargeTypes |-> 0]]
NoFuryTicks == [s \in Sides |-> 0]
NoStrikes == [s \in Sides |-> [resolved |-> 0, charged |-> 0, received |-> 0, halved |-> 0]]

InitWith(m, ins) ==
    /\ input \in ins
    /\ mode = m
    /\ oracle = NoDraws
    /\ cr = [s \in Sides |-> input[s]]
    /\ cells = {}
    /\ tick = 0
    /\ phase = "setup"
    /\ turn_order = <<"a", "b">>
    /\ attack_index = 0
    /\ hp_start = [s \in Sides |-> 0]
    /\ fury_ticks = NoFuryTicks
    /\ strikes = NoStrikes
    /\ tick_events = <<>>
    /\ log = <<>>
    /\ proc_events = NoProcEvents
    /\ chance_hits = 0
    /\ proc_made = {}
    /\ result = NoResult
    /\ first_result = [result |-> NoResult, log |-> <<>>]

NoCall == [fn |-> "none", args |-> <<>>, out |-> <<>>]

Init == InitWith("single", Inputs) /\ pure = NoCall

\* A tick whose hazard zone runs before its damage-over-time (a variant of
\* PhaseAfter)
PhaseAfterRingFirst(p) ==
    CASE p = "turn1" -> "turn2"
      [] p = "turn2" -> "decay"
      [] p = "decay" -> "proc1"
      [] p = "proc1" -> "proc2"
      [] p = "proc2" -> "fury"
      [] p = "fury"  -> "ring"
      [] p = "ring"  -> "dot"
      [] p = "dot"   -> "wind"
      [] p = "wind"  -> "regen"
      [] p = "regen" -> "check"

\* The order of the phases of one tick (run_combat, the body of the tick loop)
PhaseAfter(p) ==
    CASE p = "turn1" -> "turn2"
      [] p = "turn2" -> "decay"
      [] p = "decay" -> "proc1"
      [] p = "proc1" -> "proc2"
      [] p = "proc2" -> "fury"
      [] p = "fury"  -> "dot"
      [] p = "dot"   -> "ring"
      [] p = "ring"  -> "wind"
      [] p = "wind"  -> "regen"
      [] p = "regen" -> "check"

\* run_combat up to the tick loop: the copies a and b, the fresh grid, both
\* placements, the empty log and the attack counter.
Setup ==
    /\ phase = "setup"
    /\ LET a  == Replace(input.a)
           b  == Replace(input.b)
           g1 == PlaceCells({}, a, "a")
           a1 == [a EXCEPT !.in_grid = TRUE]
       IN  IF PlaceFails({}, a, "a") \/ PlaceFails(g1, b, "b")
           THEN /\ phase' = "error"
                /\ UNCHANGED <<cr, cells>>
           ELSE /\ phase' = "loop"
                /\ cr' = [cr EXCEPT !["a"] = a1, !["b"] = [b EXCEPT !.in_grid = TRUE]]
                /\ cells' = PlaceCells(g1, b, "b")
    /\ tick' = 0
    /\ attack_index' = 0
    /\ log' = <<>>
    /\ tick_events' = <<>>
    /\ proc_events' = NoProcEvents
    /\ chance_hits' = 0
    /\ proc_made' = {}
    /\ result' = NoResult
    /\ fury_ticks' = NoFuryTicks
    /\ strikes' = NoStrikes
    /\ UNCHANGED <<input, mode, oracle, turn_order, hp_start, first_result, pure>>

\* The initiative rolls: with different speeds the jitter (below 0.49) cannot
\* change the order, and one value stands for all.
InitRolls == IF cr["a"].stats.spd = cr["b"].stats.spd THEN Rolls ELSE NoRoll

\* The head of a tick: the start HPs, the empty event list, the initiatives and
\* the turn order.
BeginTick ==
    /\ phase = "loop"
    /\ tick < input.cfg.max_ticks
    /\ \E ua \in Draw(Key("init", tick + 1, 0, 0), InitRolls),
          ub \in Draw(Key("init", tick + 1, 1, 0), InitRolls) :
          /\ turn_order' = TurnOrder(CalculateInitiative(cr["a"].stats.spd, ua),
                                     CalculateInitiative(cr["b"].stats.spd, ub))
          /\ oracle' = Recorded((Key("init", tick + 1, 0, 0) :> ua)
                                @@ (Key("init", tick + 1, 1, 0) :> ub))
    /\ tick' = tick + 1
    /\ hp_start' = [s \in Sides |-> cr[s].current_hp]
    /\ fury_ticks' = [s \in Sides |-> fury_ticks[s] + (IF FuryInEffect(cr[s]) THEN 1 ELSE 0)]
    /\ UNCHANGED strikes
    /\ tick_events' = <<>>
    /\ phase' = "turn1"
    /\ UNCHANGED <<input, mode, cr, cells, attack_index, log, proc_events, chance_hits,
                   proc_made, result, first_result, pure>>


\* The side whose turn (or proc roll) the phase is
SideOf(p) == IF p \in {"turn1", "proc1"} THEN turn_order[1] ELSE turn_order[2]

\* The attack of run_combat's turn loop by att (already moved) on def: the
\* result is the two creatures and the attack event.
Attack(att, def, side, dodge_u, eps_u, chaos_u) ==
    LET Landed(a, da, dmg0, charged, halved) ==
            [att |-> a,
             def |-> [Replace(da.c) EXCEPT
                         !.active_effects =
                             IF a.has_rend /\ da.dmg > 0
                             THEN Append(da.c.active_effects, Effect("bleed", 3, 2))
                             ELSE da.c.active_effects,
                         !.current_hp = da.c.current_hp - da.dmg],
             ev  |-> Event("attack", side, "", da.dmg),
             dodged |-> dmg0 = 0,
             charged |-> charged,
             halved |-> halved]
        Defended(a, dp, dmg0, charged) ==
            Landed(a, IF dp.dmg > 0 THEN ApplyAbilityDefense(dp.c, dp.dmg) ELSE dp, dmg0,
                   charged, dp.halved)
        Dealt(a, dmg0, charged) ==
            Defended(a, IF dmg0 > 0 THEN ApplyDefensePassives(def, dmg0)
                        ELSE [c |-> def, dmg |-> dmg0, halved |-> FALSE], dmg0, charged)
        Struck(p) ==
            Dealt(p.c, CalculatePhysicalDamage(
                           p.c, def, ApplyAbilityAttackMods(p.c, p.atk_mod, chaos_u),
                           HasIgnoreDodgeBuff(p.c), GetEffectiveDodge(def), dodge_u, eps_u),
                  p.charged)
    IN  Struck(ApplyAttackPassives(att, def, ONE))

\* The rolls an attack may draw: the dodge roll counts only when dodge applies,
\* the Chaos Strike roll only under a Chaos Strike buff.
DodgeRolls(att, def) ==
    IF ~HasIgnoreDodgeBuff(att) /\ GetEffectiveDodge(def) > 0 THEN Rolls ELSE NoRoll
ChaosRolls(att) == IF HasBuff(att, "chaos_strike") THEN Rolls ELSE NoRoll

\* The attacks counted: those the side resolved and those that reached the
\* other side undodged, with the one-shot passives that acted on them (each
\* count stops at MaxStrikes)
Counted(n, yes) == IF yes THEN Min(MaxStrikes, n + 1) ELSE n
Tally(st, side, r) ==
    [st EXCEPT ![side].resolved = Counted(@, TRUE),
               ![side].charged = Counted(@, r.charged),
               ![Other(side)].received = Counted(@, ~r.dodged),
               ![Other(side)].halved = Counted(@, r.halved)]

\* A skipped turn that leaves the flag set (a variant of ConsumeSkip)
KeepSkip(c) == Replace(c)

\* The skipped turn of run_combat: dataclasses.replace(attacker,
\* skip_next_attack=False)
ConsumeSkip(c) == [Replace(c) EXCEPT !.skip_next_attack = FALSE]

\* A turn that moves whenever the path leads elsewhere, adjacent or not (a
\* variant of ShouldMove)
ShouldMoveAlways(att, def, target) == target # att.position

\* The two tests before the move of run_combat's turn: not adjacent, and
\* find_path_toward returned another position
ShouldMove(att, def, target) == ~IsAdjacent(att, def) /\ target # att.position

\* One iteration of the turn loop of run_combat: skip, move, attack.
Turn ==
    /\ phase \in {"turn1", "turn2"}
    /\ \E side \in {SideOf(phase)} :
       \E att0 \in {cr[side]}, def0 \in {cr[Other(side)]} :
       \E target \in {FindPathToward(cells, att0, side, def0.position)} :
       \E moves \in {ShouldMove(att0, def0, target)} :
       \E g1 \in {RemoveCells(cells, att0, side)},
          moved \in {[Replace(att0) EXCEPT !.position = target]} :
       \E att1 \in {IF moves THEN [moved EXCEPT !.in_grid = TRUE] ELSE att0},
          ev1 \in {IF moves
                   THEN Append(tick_events,
                               Event("move", side, "", target.row * GridSize + target.col))
                   ELSE tick_events} :
           IF att0.current_hp <= 0
           THEN /\ phase' = PhaseAfter(phase)
                /\ UNCHANGED <<cr, cells, attack_index, tick_events, oracle, chance_hits, strikes>>
           ELSE IF att0.skip_next_attack
           THEN /\ phase' = PhaseAfter(phase)
                /\ cr' = [cr EXCEPT ![side] = ConsumeSkip(att0)]
                /\ tick_events' = Append(tick_events, Event("skip_attack", side, "", 0))
                /\ UNCHANGED <<cells, attack_index, oracle, chance_hits, strikes>>
           ELSE IF moves /\ PlaceFails(g1, moved, side)
           THEN /\ phase' = "error"
                /\ cells' = g1
                /\ UNCHANGED <<cr, attack_index, tick_events, oracle, chance_hits, strikes>>
           ELSE /\ phase' = PhaseAfter(phase)
                /\ cells' = IF moves THEN PlaceCells(g1, moved, side) ELSE cells
                /\ IF IsAdjacent(att1, def0) /\ def0.current_hp > 0
                   THEN \E dodge_u \in Draw(Key("dodge", tick, attack_index + 1, 0),
                                            DodgeRolls(att1, def0)),
                           eps_u \in Draw(Key("eps", tick, attack_index + 1, 0), EpsRolls),
                           chaos_u \in Draw(Key("chaos", tick, attack_index + 1, 0),
                                            ChaosRolls(att1)) :
                        \E r \in {Attack(att1, def0, side, dodge_u, eps_u, chaos_u)} :
                           /\ chance_hits + (IF r.dodged THEN 1 ELSE 0) <= MaxChanceHits
                           /\ chance_hits' = chance_hits + (IF r.dodged THEN 1 ELSE 0)
                           /\ cr' = [cr EXCEPT ![side] = r.att, ![Other(side)] = r.def]
                           /\ tick_events' = Append(ev1, r.ev)
                           /\ attack_index' = attack_index + 1
                           /\ strikes' = Tally(strikes, side, r)
                           /\ oracle' = Recorded(
                                 (Key("dodge", tick, attack_index + 1, 0) :> dodge_u)
                                 @@ (Key("eps", tick, attack_index + 1, 0) :> eps_u)
                                 @@ (Key("chaos", tick, attack_index + 1, 0) :> chaos_u))
                   ELSE /\ cr' = [cr EXCEPT ![side] = att1]
                        /\ tick_events' = ev1
                        /\ UNCHANGED <<attack_index, oracle, chance_hits, strikes>>
    /\ UNCHANGED <<input, mode, tick, turn_order, hp_start, fury_ticks, log, proc_events, proc_made,
                   result, first_result, pure>>

\* tick_ability_buffs on both creatures, after the attacks and before the procs
Decay ==
    /\ phase = "decay"
    /\ cr' = [s \in Sides |-> TickAbilityBuffs(cr[s])]
    /\ phase' = PhaseAfter(phase)
    /\ UNCHANGED <<input, mode, oracle, cells, tick, turn_order, attack_index, hp_start, fury_ticks, strikes,
                   tick_events, log, proc_events, chance_hits, proc_made, result, first_result, pure>>

\* How many ability_proc events of each single-charge ability the events hold
CountProcs(events, side, t) ==
    Cardinality({ i \in 1..Len(events) :
                    /\ events[i].type = "ability_proc"
                    /\ events[i].side = side
                    /\ events[i].ability = t })

\* The resist roll is drawn only after a proc roll that succeeded
ResistRolls(c, i, p) ==
    IF SeededBool(p, EffProc(c, c.abilities[i])) THEN Rolls ELSE NoRoll

\* One iteration of the proc loop of run_combat: roll_ability_procs for the side
Procs ==
    /\ phase \in {"proc1", "proc2"}
    /\ LET side == SideOf(phase)
           idx  == SideIndex(side)
       IN  IF cr[side].current_hp <= 0
           THEN UNCHANGED <<cr, tick_events, proc_events, chance_hits, proc_made, oracle>>
           ELSE \E p1 \in Draw(Key("proc", tick, idx, 1), Rolls),
                   p2 \in Draw(Key("proc", tick, idx, 2), Rolls) :
                \E r1 \in Draw(Key("resist", tick, idx, 1), ResistRolls(cr[side], 1, p1)),
                   r2 \in Draw(Key("resist", tick, idx, 2), ResistRolls(cr[side], 2, p2)) :
                \E st \in {RollAbilityProcs(cr[side], cr[Other(side)], side, <<>>,
                                            [proc |-> <<p1, p2>>, resist |-> <<r1, r2>>])} :
                       /\ chance_hits + st.rolled <= MaxChanceHits
                       /\ cr' = [cr EXCEPT ![side] = Stamp(st.c, tick),
                                       ![Other(side)] = Stamp(st.o, tick)]
                       /\ tick_events' = tick_events \o st.ev
                       /\ proc_events' = [proc_events EXCEPT ![side] =
                             [t \in SingleChargeTypes |-> @[t] + CountProcs(st.ev, side, t)]]
                       /\ chance_hits' = chance_hits + st.rolled
                       /\ proc_made' = st.made
                       /\ oracle' = Recorded(
                             (Key("proc", tick, idx, 1) :> p1) @@ (Key("proc", tick, idx, 2) :> p2)
                             @@ (Key("resist", tick, idx, 1) :> r1)
                             @@ (Key("resist", tick, idx, 2) :> r2))
    /\ phase' = PhaseAfter(phase)
    /\ UNCHANGED <<input, mode, cells, tick, turn_order, attack_index, hp_start, fury_ticks, strikes, log,
                   result, first_result, pure>>


\* check_fury_trigger then tick_fury on both creatures
Fury ==
    /\ phase = "fury"
    /\ cr' = [s \in Sides |-> TickFury(CheckFuryTrigger(cr[s]))]
    /\ phase' = PhaseAfter(phase)
    /\ UNCHANGED <<input, mode, oracle, cells, tick, turn_order, attack_index, hp_start, fury_ticks, strikes,
                   tick_events, log, proc_events, chance_hits, proc_made, result, first_result, pure>>

\* CombatEngine._apply_effects: _process_dot on a, then on b
Dot ==
    /\ phase = "dot"
    /\ \E ra \in {ProcessDot(cr["a"], "a", tick_events)} :
       \E rb \in {ProcessDot(cr["b"], "b", ra.ev)} :
           /\ cr' = [cr EXCEPT !["a"] = ra.c, !["b"] = rb.c]
           /\ tick_events' = rb.ev
    /\ phase' = PhaseAfter(phase)
    /\ UNCHANGED <<input, mode, oracle, cells, tick, turn_order, attack_index, hp_start, fury_ticks, strikes,
                   log, proc_events, chance_hits, proc_made, result, first_result, pure>>

\* CombatEngine._apply_ring_damage
Ring ==
    /\ phase = "ring"
    /\ IF tick < input.cfg.ring_start_tick
       THEN UNCHANGED <<cr, tick_events>>
       ELSE \E ra \in {RingSide(cr["a"], "a", tick, input.cfg, tick_events)} :
            \E rb \in {RingSide(cr["b"], "b", tick, input.cfg, ra.ev)} :
                /\ cr' = [cr EXCEPT !["a"] = ra.c, !["b"] = rb.c]
                /\ tick_events' = rb.ev
    /\ phase' = PhaseAfter(phase)
    /\ UNCHANGED <<input, mode, oracle, cells, tick, turn_order, attack_index, hp_start, fury_ticks, strikes,
                   log, proc_events, chance_hits, proc_made, result, first_result, pure>>

\* CombatEngine._check_second_wind
Wind ==
    /\ phase = "wind"
    /\ \E ra \in {TrySecondWind(cr["a"], "a", tick_events)} :
       \E rb \in {TrySecondWind(cr["b"], "b", ra.ev)} :
           /\ cr' = [cr EXCEPT !["a"] = ra.c, !["b"] = rb.c]
           /\ tick_events' = rb.ev
    /\ phase' = PhaseAfter(phase)
    /\ UNCHANGED <<input, mode, oracle, cells, tick, turn_order, attack_index, hp_start, fury_ticks, strikes,
                   log, proc_events, chance_hits, proc_made, result, first_result, pure>>

\* CombatEngine._apply_regeneration
Regen ==
    /\ phase = "regen"
    /\ \E ra \in {RegenSide(cr["a"], "a", tick_events)} :
       \E rb \in {RegenSide(cr["b"], "b", ra.ev)} :
           /\ cr' = [cr EXCEPT !["a"] = ra.c, !["b"] = rb.c]
           /\ tick_events' = rb.ev
    /\ phase' = PhaseAfter(phase)
    /\ UNCHANGED <<input, mode, oracle, cells, tick, turn_order, attack_index, hp_start, fury_ticks, strikes,
                   log, proc_events, chance_hits, proc_made, result, first_result, pure>>

\* A tick that never ends the match (a variant of MatchOver)
NeverOver(a, b) == FALSE

\* The death test at the end of a tick
MatchOver(a, b) == a.current_hp <= 0 \/ b.current_hp <= 0

CombatResult(winner, ticks, end_condition) ==
    [winner |-> winner, ticks |-> ticks, end_condition |-> end_condition,
     final_hp_a |-> cr["a"].current_hp, final_hp_b |-> cr["b"].current_hp]

\* The end of a tick: the tick's events join the log, and a death ends the match.
\* The log is kept only where two runs are compared.
Check ==
    /\ phase = "check"
    /\ log' = IF mode = "single" THEN log
              ELSE Append(log, [tick |-> tick, events |-> tick_events])
    /\ IF MatchOver(cr["a"], cr["b"])
       THEN /\ result' = CombatResult(
                   ResolveDeath(cr["a"], cr["b"], hp_start["a"], hp_start["b"]),
                   tick, "death")
            /\ phase' = "done"
       ELSE /\ phase' = "loop"
            /\ UNCHANGED result
    /\ UNCHANGED <<input, mode, oracle, cr, cells, tick, turn_order, attack_index, hp_start, fury_ticks, strikes,
                   tick_events, proc_events, chance_hits, proc_made, first_result, pure>>

\* The tick loop ran out: the match ends by timeout.
Timeout ==
    /\ phase = "loop"
    /\ tick >= input.cfg.max_ticks
    /\ result' = CombatResult(ResolveTimeout(cr["a"], cr["b"]), input.cfg.max_ticks, "timeout")
    /\ phase' = "done"
    /\ UNCHANGED <<input, mode, oracle, cr, cells, tick, turn_order, attack_index, hp_start, fury_ticks, strikes,
                   tick_events, log, proc_events, chance_hits, proc_made, first_result, pure>>

Next ==
    \/ Setup
    \/ BeginTick
    \/ Turn
    \/ Decay
    \/ Procs
    \/ Fury
    \/ Dot
    \/ Ring
    \/ Wind
    \/ Regen
    \/ Check
    \/ Timeout

Spec == Init /\ [][Next]_vars

(***************************************************************************)
(* Two executions on the same inputs                                       *)
(***************************************************************************)
ReplayInputs ==
    { Match(Build("monkey", 1, 12, 5, 2), RendFlags, Build("buffalo", 2, 11, 4, 3), WindFlags,
            0, MaxTickBudget - 4, 1),
      Match(Build("tiger", 1, 14, 3, 2), PlainFlags, Build("wolf", 2, 13, 3, 2), PlainFlags,
            0, MaxTickBudget - 5, DefaultRingStart),
      Match(Build("fox", 2, 11, 4, 3), PlainFlags, Build("wolf", 2, 13, 3, 2), PlainFlags,
            0, MaxTickBudget - 5, DefaultRingStart),
      Match(Build("fox", 2, 11, 4, 3), PlainFlags, Build("buffalo", 2, 12, 3, 3), PlainFlags,
            0, MaxTickBudget - 5, DefaultRingStart) }

InitReplay == InitWith("first", ReplayInputs) /\ pure = NoCall

\* A second call on records that took over the engine's locals a and b, as if
\* run_combat had worked on the caller's objects (a variant of Replay)
ReplayCarryOver ==
    /\ phase = "done"
    /\ mode = "first"
    /\ mode' = "second"
    /\ first_result' = [result |-> result, log |-> log]
    /\ phase' = "setup"
    /\ input' = [input EXCEPT !.a = Fields(cr["a"]), !.b = Fields(cr["b"])]
    /\ UNCHANGED <<oracle, cr, cells, tick, turn_order, attack_index, hp_start, fury_ticks, strikes,
                   tick_events, log, proc_events, chance_hits, proc_made, result, pure>>

\* The caller keeps the first result and calls run_combat again with the same
\* arguments; every draw takes the value it had, being a function of the match
\* seed and the draw's key.
Replay ==
    /\ phase = "done"
    /\ mode = "first"
    /\ mode' = "second"
    /\ first_result' = [result |-> result, log |-> log]
    /\ phase' = "setup"
    /\ UNCHANGED <<input, oracle, cr, cells, tick, turn_order, attack_index, hp_start, fury_ticks, strikes,
                   tick_events, log, proc_events, chance_hits, proc_made, result, pure>>

NextReplay == Next \/ Replay

SpecReplay == InitReplay /\ [][NextReplay]_vars

Alive(s) == cr[s].current_hp > 0

\* C2: a match runs at most max_ticks ticks; every tick that runs started with
\* both creatures alive; a match that ended has a verdict: 'death' with ticks =
\* the tick in which a creature's HP reached 0 or less, or 'timeout' with ticks =
\* max_ticks after max_ticks ticks that left both alive.
Termination ==
    /\ tick <= input.cfg.max_ticks
    /\ (tick >= 1 /\ phase # "setup") => \A s \in Sides : hp_start[s] > 0
    /\ phase = "loop" => \A s \in Sides : Alive(s)
    /\ phase = "done" =>
          /\ result.winner \in {"a", "b", "none"}
          /\ \/ /\ result.end_condition = "death"
                /\ result.ticks = tick
                /\ \E s \in Sides : ~Alive(s)
             \/ /\ result.end_condition = "timeout"
                /\ result.ticks = input.cfg.max_ticks
                /\ tick = input.cfg.max_ticks
                /\ \A s \in Sides : Alive(s)

\* A match has ended by death before the tick budget was used up.
TerminationWitness ==
    /\ phase = "done"
    /\ result.end_condition = "death"
    /\ result.ticks < input.cfg.max_ticks

\* C3: a match that ends by timeout is won by the side with the strictly higher
\* current_hp / max_hp, and is a draw exactly when the two ratios are equal.
TimeoutResolution ==
    (phase = "done" /\ result.end_condition = "timeout") =>
        LET a == cr["a"]
            b == cr["b"]
        IN  /\ result.winner = "a" <=> a.current_hp * b.max_hp > b.current_hp * a.max_hp
            /\ result.winner = "b" <=> b.current_hp * a.max_hp > a.current_hp * b.max_hp
            /\ result.winner = "none" <=> a.current_hp * b.max_hp = b.current_hp * a.max_hp

\* A timeout won by the side that has fewer hit points but the higher ratio.
TimeoutResolutionWitness ==
    /\ phase = "done" /\ result.end_condition = "timeout"
    /\ \E s \in Sides :
          /\ result.winner = s
          /\ cr[s].current_hp < cr[Other(s)].current_hp

\* C4: a match that ends by death with one creature dead is won by the other;
\* with both dead it is won by the side whose HP ratio at the start of the tick
\* was strictly higher, and is a draw exactly when those ratios are equal.
DeathResolution ==
    (phase = "done" /\ result.end_condition = "death") =>
        LET a  == cr["a"]
            b  == cr["b"]
            pa == hp_start["a"] * b.max_hp
            pb == hp_start["b"] * a.max_hp
        IN  /\ (~Alive("a") /\ Alive("b")) => result.winner = "b"
            /\ (~Alive("b") /\ Alive("a")) => result.winner = "a"
            /\ (~Alive("a") /\ ~Alive("b")) =>
                  /\ result.winner = "a" <=> pa > pb
                  /\ result.winner = "b" <=> pb > pa
                  /\ result.winner = "none" <=> pa = pb

\* Both creatures died in one tick that they began with different HP ratios, the
\* side that was ahead ending the tick with the lower HP.
DeathResolutionWitness ==
    /\ phase = "done" /\ result.end_condition = "death"
    /\ ~Alive("a") /\ ~Alive("b")
    /\ \E s \in Sides :
          /\ result.winner = s
          /\ cr[s].current_hp * cr[Other(s)].max_hp < cr[Other(s)].current_hp * cr[s].max_hp

(***************************************************************************)
(* Validation and derived stats as functions of their arguments            *)
(***************************************************************************)
StatInputs == {-1, 0, 1, 2, 17, 18, 21}

Tokens == { <<"0">>, <<"1">>, <<"1", "7">>, <<"2", "1">>, <<"-", "1">>, <<"+", "2">>, <<"x">> }

NameInputs == {"bear", "dragon"}

PartsInputs ==
    { <<n, t1, t2, t3, t4>> : n \in NameInputs, t1 \in Tokens, t2 \in Tokens,
                               t3 \in Tokens, t4 \in Tokens }
    \cup { <<n, t1, t2, t3>> : n \in NameInputs, t1 \in Tokens, t2 \in Tokens, t3 \in Tokens }

MaxMagnitude == 40
Magnitudes == (0 - MaxMagnitude)..MaxMagnitude

InitPure == InitWith("single", ReplayInputs) /\ pure = NoCall

engine_vars == <<input, mode, oracle, cr, cells, tick, phase, turn_order, attack_index,
                 hp_start, fury_ticks, strikes, tick_events, log, proc_events, chance_hits, proc_made, result,
                 first_result>>

CallStatBlock ==
    /\ pure = NoCall
    /\ \E hp \in StatInputs, atk \in StatInputs, spd \in StatInputs, wil \in StatInputs :
          pure' = [fn |-> "StatBlock", args |-> <<hp, atk, spd, wil>>,
                   out |-> StatBlockNew(hp, atk, spd, wil)]
    /\ UNCHANGED engine_vars

CallBuild ==
    /\ pure = NoCall
    /\ \E hp \in StatInputs, atk \in StatInputs, spd \in StatInputs, wil \in StatInputs :
          pure' = [fn |-> "Build", args |-> <<hp, atk, spd, wil>>,
                   out |-> BuildNew("bear", hp, atk, spd, wil)]
    /\ UNCHANGED engine_vars

CallParseBuild ==
    /\ pure = NoCall
    /\ \E parts \in PartsInputs :
          pure' = [fn |-> "_parse_build", args |-> parts, out |-> ParseBuild(parts)]
    /\ UNCHANGED engine_vars

CallComputeDerived ==
    /\ pure = NoCall
    /\ \E spd \in Magnitudes, wil \in Magnitudes :
          pure' = [fn |-> "_compute_derived", args |-> <<1, 1, spd, wil>>,
                   out |-> ComputeDerived(1, 1, spd, wil)]
    /\ UNCHANGED engine_vars

\* The effect of one buff of kind t, as the original and as a Mimic copy
WithBuff(c, t, copy) == [c EXCEPT !.active_buffs = <<Buff(t, 1, "a", copy)>>]

\* The kinds Mimic can copy that change the attack multiplier in
\* apply_ability_attack_mods, and those that multiply the dodge chance
AttackKinds == {"pack_howl", "pounce", "stampede", "gore", "chaos_strike", "dive"} \ MIMIC_BLOCKED
DodgeKinds == {"berserker_rage", "hamstring"} \ MIMIC_BLOCKED
ChaosInputs == {0, 500000}
DodgeInputs == {400000, 800000}

CallApplyAbilityAttackMods ==
    /\ pure = NoCall
    /\ \E t \in AttackKinds, u \in ChaosInputs :
          pure' = [fn |-> "apply_ability_attack_mods", args |-> <<t, u>>,
                   out |-> [base |-> ONE,
                            full |-> ApplyAbilityAttackMods(WithBuff(input.a, t, FALSE), ONE, u),
                            copy |-> ApplyAbilityAttackMods(WithBuff(input.a, t, TRUE), ONE, u)]]
    /\ UNCHANGED engine_vars

CallFuryOrRageMod ==
    /\ pure = NoCall
    /\ pure' = [fn |-> "_apply_attack_passives", args |-> <<"berserker_rage">>,
                out |-> [base |-> ONE,
                         full |-> FuryOrRageMod(WithBuff(input.a, "berserker_rage", FALSE)),
                         copy |-> FuryOrRageMod(WithBuff(input.a, "berserker_rage", TRUE))]]
    /\ UNCHANGED engine_vars

CallGetEffectiveDodge ==
    /\ pure = NoCall
    /\ \E t \in DodgeKinds, dodge \in DodgeInputs :
          pure' = [fn |-> "get_effective_dodge", args |-> <<t, dodge>>,
                   out |-> [base |-> dodge,
                            full |-> GetEffectiveDodge(
                                        [WithBuff(input.a, t, FALSE) EXCEPT !.dodge_chance = dodge]),
                            copy |-> GetEffectiveDodge(
                                        [WithBuff(input.a, t, TRUE) EXCEPT !.dodge_chance = dodge])]]
    /\ UNCHANGED engine_vars

\* The Berserker Rage buffs an attacker can hold: originals and Mimic copies
RageBuffs ==
    { << >> } \cup { <<Buff("berserker_rage", 3, "a", x)>> : x \in BOOLEAN }
              \cup { <<Buff("berserker_rage", 3, "a", x), Buff("berserker_rage", 2, "a", y)>> :
                        x \in BOOLEAN, y \in BOOLEAN }
AtkModInputs == {ONE, 13000}

\* _apply_attack_passives for an attacker with or without a running fury
\* window, against a defender at full HP
CallApplyAttackPassives ==
    /\ pure = NoCall
    /\ \E fury \in BOOLEAN, bs \in RageBuffs, m \in AtkModInputs :
          pure' = [fn |-> "CombatEngine._apply_attack_passives", args |-> <<fury, bs, m>>,
                   out |-> ApplyAttackPassives(
                              [input.a EXCEPT !.passive = IF fury THEN "fury_protocol" ELSE "none",
                                              !.fury_active_ticks = IF fury THEN 2 ELSE 0,
                                              !.has_execute = FALSE,
                                              !.active_buffs = bs],
                              input.b, m).atk_mod]
    /\ UNCHANGED engine_vars

\* The footprints _compute_size produces, and normalised values of the
\* column draw, the two ends of its range and the steps between columns among
\* them
Footprints == { ComputeSize(hp, atk) : hp \in 1..17, atk \in 1..17 }
StartRolls == {0, 124000, 125000, 500000, 874000, 875000, 999000, 999999}

\* _create_creature's call of generate_starting_position for either side of a
\* match, both with the match seed
CallGenerateStartingPosition ==
    /\ pure = NoCall
    /\ \E size_a \in Footprints, size_b \in Footprints, u \in StartRolls :
          pure' = [fn |-> "generate_starting_position", args |-> <<size_a, size_b, u>>,
                   out |-> [a |-> GenerateStartingPosition("a", size_a, u),
                            b |-> GenerateStartingPosition("b", size_b, u)]]
    /\ UNCHANGED engine_vars

\* The buffs get_effective_dodge looks at, as originals and as Mimic copies,
\* and the lists of up to two of them and some of three
DodgeBuffs ==
    { Buff(t, 1, "a", copy) :
        t \in {"coil", "keen_eye", "evasion", "berserker_rage", "hamstring"}, copy \in BOOLEAN }
DodgeBuffLists ==
    { << >> } \cup { <<x>> : x \in DodgeBuffs } \cup { <<x, y>> : x \in DodgeBuffs, y \in DodgeBuffs }
    \cup { <<Buff("evasion", 1, "a", FALSE), Buff("evasion", 1, "a", FALSE), x>> : x \in DodgeBuffs }
    \cup { <<Buff("hamstring", 1, "a", FALSE), Buff("berserker_rage", 1, "a", FALSE), x>> :
              x \in DodgeBuffs }
DodgeBases == {0, 150000, 300000}

\* get_effective_dodge of a creature with a base dodge chance and buffs
CallEffectiveDodge ==
    /\ pure = NoCall
    /\ \E bs \in DodgeBuffLists, dodge \in DodgeBases :
          pure' = [fn |-> "abilities.get_effective_dodge", args |-> <<bs, dodge>>,
                   out |-> GetEffectiveDodge(
                              [input.a EXCEPT !.active_buffs = bs, !.dodge_chance = dodge])]
    /\ UNCHANGED engine_vars

\* Lists of active buffs with none, one and two block buffs of a kind
BlockLists ==
    LET T == Buff("thick_hide_ability", 1, "a", FALSE)
        E == Buff("exoskeleton", 1, "a", FALSE)
        R == Buff("berserker_rage", 3, "a", FALSE)
    IN  { << >>, <<R>>, <<T>>, <<E>>, <<T, E>>, <<E, T>>, <<R, T>>, <<E, R>>,
          <<T, T>>, <<E, E>>, <<E, R, E>> }
DamageInputs == {1, 5, 40}

\* apply_ability_defense on a hit with positive damage
CallApplyAbilityDefense ==
    /\ pure = NoCall
    /\ \E bs \in BlockLists, dmg \in DamageInputs :
       \E r \in {ApplyAbilityDefense([input.a EXCEPT !.active_buffs = bs], dmg)} :
          pure' = [fn |-> "apply_ability_defense", args |-> <<bs, dmg, input.a.max_hp>>,
                   out |-> [buffs |-> r.c.active_buffs, dmg |-> r.dmg]]
    /\ UNCHANGED engine_vars

\* A creature as the grid sees it: position, footprint, movement range, and
\* whether the object is the one the grid holds
Piece(p, size, m, held) == [position |-> p, size |-> size, movement_range |-> m, in_grid |-> held]

\* Boards on which place_creature has put a creature of side b, the
\* footprints and the positions, on and off the board, the calls are made with
Blockers == { Piece(Pos(3, 3), Size(2, 2), 1, TRUE), Piece(Pos(0, 0), Size(1, 1), 1, TRUE),
              Piece(Pos(5, 6), Size(3, 2), 1, TRUE) }
PieceSizes == { Size(1, 1), Size(2, 2), Size(3, 2) }
BoardPositions == { Pos(r, c) : r \in (0 - 1)..GridSize, c \in (0 - 1)..GridSize }
MoverStarts == { Pos(1, 1), Pos(2, 4), Pos(6, 3) }

\* grid.place_creature(a) on a board holding b
CallPlaceCreature ==
    /\ pure = NoCall
    /\ \E blk \in Blockers, size \in PieceSizes, p \in BoardPositions :
       \E g \in {PlaceCells({}, blk, "b")} :
          pure' = [fn |-> "Grid.place_creature",
                   args |-> <<g, Piece(p, size, 1, FALSE)>>,
                   out |-> PlaceCreature(g, Piece(p, size, 1, FALSE), "a")]
    /\ UNCHANGED engine_vars

\* grid.move_creature(a, target) on a board holding a and b
CallMoveCreature ==
    /\ pure = NoCall
    /\ \E blk \in Blockers, size \in PieceSizes, p \in MoverStarts,
          m \in 1..3, target \in BoardPositions :
       \E g0 \in {PlaceCells({}, blk, "b")} :
          /\ ~PlaceFails(g0, Piece(p, size, m, FALSE), "a")
          /\ \E g \in {PlaceCells(g0, Piece(p, size, m, FALSE), "a")} :
                pure' = [fn |-> "Grid.move_creature",
                         args |-> <<g, Piece(p, size, m, TRUE), target>>,
                         out |-> MoveCreature(g, Piece(p, size, m, TRUE), "a", target)]
    /\ UNCHANGED engine_vars

\* Speeds and normalised jitter draws for the initiatives of a tick
SpeedInputs == {1, 2, 3, 9, 16, 17}
JitterRolls == {0, 1, 500000, 999999}

\* The head of run_combat's tick: the two initiatives and the turn order
CallTurnOrder ==
    /\ pure = NoCall
    /\ \E spd_a \in SpeedInputs, spd_b \in SpeedInputs, ua \in JitterRolls, ub \in JitterRolls :
          pure' = [fn |-> "run_combat.turn_order", args |-> <<spd_a, spd_b, ua, ub>>,
                   out |-> TurnOrder(CalculateInitiative(spd_a, ua),
                                     CalculateInitiative(spd_b, ub))]
    /\ UNCHANGED engine_vars

\* What the opponent may have procced last, and the owner's buffs before the
\* Mimic proc
MimicTargets == { ab.ability_type : ab \in AllAbilities } \cup {"none"}
OwnerBuffLists == { << >>, <<Buff("evasion", 2, "a", FALSE)>> }

\* _apply_ability_proc for a Mimic proc of side a
CallApplyMimic ==
    /\ pure = NoCall
    /\ \E target \in MimicTargets, bs \in OwnerBuffLists, dodge \in DodgeBases :
       \E c \in {[input.a EXCEPT !.active_buffs = bs, !.dodge_chance = dodge]},
          o \in {[input.b EXCEPT !.last_ability_procced = target]} :
       \E r \in {ApplyAbilityProc(c, o, OriginalAbility("mimic"), "a")} :
          pure' = [fn |-> "_apply_ability_proc.mimic", args |-> <<c, o>>,
                   out |-> [c |-> r.c, o |-> r.o]]
    /\ UNCHANGED engine_vars

\* Buff lists of an attacker, with and without a dodge-ignoring buff, and of
\* a defender, with and without Coil
StrikerBuffLists ==
    { << >>, <<Buff("pack_howl", 2, "a", FALSE)>> }
    \cup { <<Buff(t, 1, "a", copy)>> : t \in {"pounce", "gore", "dive"}, copy \in BOOLEAN }
    \cup { <<Buff("pack_howl", 2, "a", FALSE), Buff("dive", 1, "a", FALSE)>> }
TargetBuffLists ==
    { << >>, <<Buff("coil", 1, "b", FALSE)>>, <<Buff("coil", 1, "b", TRUE)>>,
      <<Buff("evasion", 2, "b", FALSE)>>,
      <<Buff("evasion", 2, "b", FALSE), Buff("coil", 1, "b", FALSE)>> }
DodgeDraws == {0, 500000, 999999}

\* The attack of run_combat's turn by side a on an adjacent, living defender:
\* whether calculate_physical_damage draws the dodge roll, whether it returned
\* 0, the damage logged and the defender's HP afterwards
CallAttack ==
    /\ pure = NoCall
    /\ \E abs \in StrikerBuffLists, dbs \in TargetBuffLists, dodge \in DodgeBases,
          dodge_u \in DodgeDraws :
       \E att \in {[input.a EXCEPT !.active_buffs = abs]},
          def \in {[input.b EXCEPT !.active_buffs = dbs, !.dodge_chance = dodge]} :
       \E r \in {Attack(att, def, "a", dodge_u, 500000, 0)} :
          pure' = [fn |-> "run_combat.attack", args |-> <<att, def, dodge_u>>,
                   out |-> [rolled |-> DodgeRolls(att, def) # NoRoll,
                            dodged |-> r.dodged,
                            damage |-> r.ev.amount,
                            hp |-> r.def.current_hp]]
    /\ UNCHANGED engine_vars

\* Buff lists with a Chaos Strike buff, as an original and as a Mimic copy,
\* alone, after and before other buffs, and one without; the one-shot and
\* windowed passives of the attacker; the chaos draws
ChaosBuffLists ==
    LET C == Buff("chaos_strike", 1, "a", FALSE)
        M == Buff("chaos_strike", 1, "a", TRUE)
        H == Buff("pack_howl", 2, "a", FALSE)
        D == Buff("dive", 1, "a", FALSE)
        R == Buff("berserker_rage", 3, "a", FALSE)
    IN  { <<C>>, <<M>>, <<H, C>>, <<C, H>>, <<H, M, D>>, <<R, C>>, <<C, M>>, <<M, H, C, D>>,
          <<H>>, <<R, D>> }
ChaosPassives == {"none", "charge", "fury_protocol"}
ChaosDraws == {0, 500000, 999999}

\* The two multiplier steps of an attack of run_combat: _apply_attack_passives
\* from 1.0, then apply_ability_attack_mods on its result
CallAttackMods ==
    /\ pure = NoCall
    /\ \E bs \in ChaosBuffLists, p \in ChaosPassives, u \in ChaosDraws :
       \E att \in {[input.a EXCEPT !.passive = p, !.charge_used = FALSE,
                                   !.fury_active_ticks = IF p = "fury_protocol" THEN 2 ELSE 0,
                                   !.has_execute = FALSE, !.active_buffs = bs]} :
       \E r \in {ApplyAttackPassives(att, input.b, ONE)} :
          pure' = [fn |-> "run_combat.attack_mods", args |-> <<att, u>>,
                   out |-> [c |-> r.c, passive_mod |-> r.atk_mod,
                            mod |-> ApplyAbilityAttackMods(r.c, r.atk_mod, u)]]
    /\ UNCHANGED engine_vars

NextPure ==
    \/ CallStatBlock \/ CallBuild \/ CallParseBuild \/ CallComputeDerived
    \/ CallApplyAbilityAttackMods \/ CallFuryOrRageMod \/ CallGetEffectiveDodge
    \/ CallApplyAttackPassives \/ CallApplyAbilityDefense \/ CallEffectiveDodge
    \/ CallGenerateStartingPosition \/ CallPlaceCreature \/ CallMoveCreature
    \/ CallTurnOrder \/ CallApplyMimic \/ CallAttack
    \/ CallAttackMods

SpecPure == InitPure /\ [][NextPure]_vars

\* The integers the tokens of the drawn alphabet denote
Denotation ==
    { <<<<"0">>, 0>>, <<<<"1">>, 1>>, <<<<"1", "7">>, 17>>, <<<<"2", "1">>, 21>>,
      <<<<"-", "1">>, 0 - 1>>, <<<<"+", "2">>, 2>> }
Denoted(tok) == { d[2] : d \in { e \in Denotation : e[1] = tok } }
Denotes(tok, n) == n \in Denoted(tok)

ValidAllocation(hp, atk, spd, wil) ==
    /\ hp >= 1 /\ atk >= 1 /\ spd >= 1 /\ wil >= 1
    /\ hp + atk + spd + wil = 20

\* C5: StatBlock, Build and _parse_build fail whenever the four stats do not sum
\* to 20 or one of them is below 1; they succeed only for allocations with every
\* stat >= 1 and sum 20, and what they return are the values given.
StatInvariant ==
    /\ pure.fn \in {"StatBlock", "Build"} =>
          /\ pure.out.ok <=> ValidAllocation(pure.args[1], pure.args[2], pure.args[3], pure.args[4])
          /\ pure.out.ok => pure.out.stats = [hp |-> pure.args[1], atk |-> pure.args[2],
                                               spd |-> pure.args[3], wil |-> pure.args[4]]
    /\ pure.fn = "_parse_build" =>
          /\ pure.out.ok =>
                /\ Len(pure.args) = 5
                /\ ValidAllocation(pure.out.stats.hp, pure.out.stats.atk,
                                   pure.out.stats.spd, pure.out.stats.wil)
                /\ Denotes(pure.args[2], pure.out.stats.hp)
                /\ Denotes(pure.args[3], pure.out.stats.atk)
                /\ Denotes(pure.args[4], pure.out.stats.spd)
                /\ Denotes(pure.args[5], pure.out.stats.wil)
          /\ (/\ Len(pure.args) = 5
              /\ \E hp \in Denoted(pure.args[2]), atk \in Denoted(pure.args[3]),
                    spd \in Denoted(pure.args[4]), wil \in Denoted(pure.args[5]) :
                    ~ValidAllocation(hp, atk, spd, wil))
             => ~pure.out.ok

\* A StatBlock whose stats sum to 20 was refused for a stat below 1.
StatInvariantWitness ==
    /\ pure.fn = "StatBlock"
    /\ pure.args[1] + pure.args[2] + pure.args[3] + pure.args[4] = 20
    /\ ~pure.out.ok

CountEvents(events, type, side) ==
    Cardinality({ i \in 1..Len(events) : events[i].type = type /\ events[i].side = side })

\* Some cell of the creature lies outside the safe rectangle of tick t
OutsideSafe(c, t) ==
    \E dr \in 0..(c.size.rows - 1), dc \in 0..(c.size.cols - 1) :
        LET r  == c.position.row + dr
            k  == c.position.col + dc
            lo == SafeMin(t - input.cfg.ring_start_tick)
            hi == SafeMax(t - input.cfg.ring_start_tick)
        IN  r < lo \/ r > hi \/ k < lo \/ k > hi

HazardStep ==
    /\ phase = "ring" =>
          \A s \in Sides :
              LET c      == cr[s]
                  logged == CountEvents(tick_events', "ring_damage", s)
                            - CountEvents(tick_events, "ring_damage", s)
              IN  IF tick >= input.cfg.ring_start_tick /\ OutsideSafe(c, tick)
                  THEN /\ cr'[s].current_hp = c.current_hp - Max(1, (c.max_hp * 2) \div 100)
                       /\ logged = 1
                  ELSE /\ cr'[s].current_hp = c.current_hp
                       /\ logged = 0
    /\ phase # "ring" =>
          \A s \in Sides : CountEvents(tick_events', "ring_damage", s)
                              <= CountEvents(tick_events, "ring_damage", s)

\* C7: the hazard zone changes no HP and logs no ring_damage event in a tick
\* before ring_start_tick; from ring_start_tick on, every tick takes
\* max(1, floor(max_hp * 0.02)) HP from each creature with a cell outside the
\* safe rectangle and logs one ring_damage event for it, and nothing else does.
HazardTiming == [][HazardStep]_vars

\* From the start tick on, the hazard zone has damaged a creature whose
\* position cell is inside the safe rectangle and another of its cells outside.
HazardTimingWitness ==
    /\ phase = "wind"
    /\ tick >= input.cfg.ring_start_tick
    /\ \E s \in Sides :
          /\ CountEvents(tick_events, "ring_damage", s) = 1
          /\ ~OutsideSafe([cr[s] EXCEPT !.size = Size(1, 1)], tick)

(***************************************************************************)
(* Single-charge abilities and Mimic                                       *)
(***************************************************************************)
\* C8: Iron Will and Last Stand each log at most one ability_proc event per side
\* and match, are not rolled once their used flag is set, and Last Stand is
\* rolled only while the creature's HP is below 15% of its max HP.
SingleCharge ==
    /\ \A s \in Sides :
          /\ proc_events[s]["iron_will"] <= 1
          /\ proc_events[s]["last_stand"] <= 1
    /\ \A r \in proc_made :
          /\ r.ability \in {"iron_will", "last_stand"} => ~r.used
          /\ r.ability = "last_stand" => 100 * r.hp < 15 * r.max_hp

\* Iron Will has fired for a creature and the match went on into a later tick
\* in which the creature's abilities were rolled again.
SingleChargeWitness ==
    \E s \in Sides :
        /\ proc_events[s]["iron_will"] = 1
        /\ CountEvents(tick_events, "ability_proc", s) = 0
        /\ phase = "fury"
        /\ \E r \in proc_made : r.side = s

\* C9: no buff that is a Mimic copy has the ability kind Mimic or the kind of an
\* ability that the ability tables define as single-charge.
MimicNeverCopiesBlocked ==
    \A s \in Sides : \A i \in 1..Len(cr[s].active_buffs) :
        cr[s].active_buffs[i].is_mimic_copy =>
            /\ cr[s].active_buffs[i].ability_type # "mimic"
            /\ cr[s].active_buffs[i].ability_type \notin SingleChargeTypes

(***************************************************************************)
(* Tick pipeline                                                           *)
(***************************************************************************)
PhaseRank(p) ==
    CASE p \in {"turn1", "turn2"} -> 1
      [] p = "decay" -> 2
      [] p \in {"proc1", "proc2"} -> 3
      [] p = "fury" -> 4
      [] p = "dot" -> 5
      [] p = "ring" -> 6
      [] p = "wind" -> 7
      [] p = "regen" -> 8
      [] p = "check" -> 9
      [] OTHER -> 0

EventRank(type) ==
    CASE type \in {"skip_attack", "move", "attack"} -> 1
      [] type \in {"ability_proc", "ability_resisted", "trick_reflected"} -> 2
      [] type = "dot" -> 3
      [] type = "ring_damage" -> 4
      [] type = "second_wind" -> 5
      [] OTHER -> 6

\* The part of the tick an event of the kind is logged in
EventPhaseRank(type) ==
    CASE type \in {"skip_attack", "move", "attack"} -> 1
      [] type \in {"ability_proc", "ability_resisted", "trick_reflected"} -> 3
      [] type = "dot" -> 5
      [] type = "ring_damage" -> 6
      [] type = "second_wind" -> 7
      [] OTHER -> 8

EventOrder ==
    \A i, j \in 1..Len(tick_events) :
        i < j => EventRank(tick_events[i].type) <= EventRank(tick_events[j].type)

PipelineStep ==
    /\ PhaseRank(phase) \in 1..8 =>
          /\ phase' = "error" \/ PhaseRank(phase') \in {PhaseRank(phase), PhaseRank(phase) + 1}
          /\ tick' = tick
          /\ \A i \in (Len(tick_events) + 1)..Len(tick_events') :
                EventPhaseRank(tick_events'[i].type) = PhaseRank(phase)
    /\ phase = "turn1" => phase' \in {"turn2", "error"}
    /\ phase = "proc1" => phase' = "proc2"
    /\ phase = "check" => phase' \in {"loop", "done"} /\ tick_events' = tick_events
    /\ (phase = "loop" /\ phase' # "done") => phase' = "turn1" /\ tick_events' = <<>>

\* C10: within a tick the phases run in the order turns, buff decay, proc rolls,
\* fury, damage-over-time, hazard zone, second wind, regeneration, terminal
\* check, each event being logged by its phase; so in a tick's event list the
\* skip_attack/move/attack events precede the proc events, which precede the dot
\* events, then ring_damage, then second_wind.
PipelineOrder == []EventOrder /\ [][PipelineStep]_vars

\* One tick has logged an attack, an ability proc, damage-over-time, hazard
\* damage and a second wind.
PipelineOrderWitness ==
    \E i, j, k, l, m \in 1..Len(tick_events) :
        /\ tick_events[i].type = "attack"
        /\ tick_events[j].type = "ability_proc"
        /\ tick_events[k].type = "dot"
        /\ tick_events[l].type = "ring_damage"
        /\ tick_events[m].type = "second_wind"

(***************************************************************************)
(* Turn order                                                              *)
(***************************************************************************)
TurnEventTypes == {"skip_attack", "move", "attack"}
ProcEventTypes == {"ability_proc", "ability_resisted", "trick_reflected"}

\* The initiative of a side in the current tick, from the recorded draw
InitKey(s) == Key("init", tick, SideIndex(s), 0)
InitiativeOf(s) == CalculateInitiative(cr[s].stats.spd, oracle[InitKey(s)])
InitiativesKnown == tick >= 1 /\ \A s \in Sides : InitKey(s) \in DOMAIN oracle

FirstSide == IF InitiativeOf("b") > InitiativeOf("a") THEN "b" ELSE "a"

SamePart(e, f) ==
    \/ e.type \in TurnEventTypes /\ f.type \in TurnEventTypes
    \/ e.type \in ProcEventTypes /\ f.type \in ProcEventTypes

\* C11: in each tick the side with the strictly higher initiative is first in
\* the turn order, side a is first on an exact tie, and both the turn events
\* (skip, move, attack) and the proc events of the tick are logged first-side
\* first.
TurnOrderLaw ==
    InitiativesKnown =>
        /\ turn_order = <<FirstSide, Other(FirstSide)>>
        /\ \A i, j \in 1..Len(tick_events) :
              (i < j /\ SamePart(tick_events[i], tick_events[j])
                     /\ tick_events[i].side # tick_events[j].side)
              => tick_events[i].side = FirstSide

\* An exact tie of the initiatives in a tick in which both sides moved and both
\* sides had a proc roll succeed.
TurnOrderLawWitness ==
    /\ InitiativesKnown
    /\ InitiativeOf("a") = InitiativeOf("b")
    /\ \A s \in Sides :
          /\ \E i \in 1..Len(tick_events) :
                tick_events[i].type \in TurnEventTypes /\ tick_events[i].side = s
          /\ \E i \in 1..Len(tick_events) :
                tick_events[i].type \in ProcEventTypes /\ tick_events[i].side = s

(***************************************************************************)
(* Skip flag                                                               *)
(***************************************************************************)
\* The events a step appended to the tick's event list
NewEvents == SubSeq(tick_events', Len(tick_events) + 1, Len(tick_events'))

SkipStep ==
    phase \in {"turn1", "turn2"} =>
        LET s == SideOf(phase)
        IN  /\ (cr[s].current_hp > 0 /\ cr[s].skip_next_attack) =>
                  /\ NewEvents = <<Event("skip_attack", s, "", 0)>>
                  /\ Fields(cr'[s]) = Fields([cr[s] EXCEPT !.skip_next_attack = FALSE])
                  /\ cr'[Other(s)] = cr[Other(s)]
                  /\ cells' = cells
                  /\ attack_index' = attack_index
            /\ (cr[s].current_hp > 0 /\ ~cr[s].skip_next_attack /\ phase' # "error") =>
                  /\ \A i \in 1..Len(NewEvents) : NewEvents[i].type \in {"move", "attack"}
                  /\ ~cr'[s].skip_next_attack
                  /\ (IsAdjacent(cr'[s], cr[Other(s)]) /\ cr[Other(s)].current_hp > 0) =>
                        /\ attack_index' = attack_index + 1
                        /\ NewEvents # <<>>
                        /\ NewEvents[Len(NewEvents)].type = "attack"

\* C12: a living creature whose skip flag is set at its turn neither moves nor
\* attacks, exactly one skip_attack event is logged and the flag is cleared; a
\* living creature whose flag is not set logs no skip_attack event and attacks
\* when it stands next to a living opponent.
SkipFlag == [][SkipStep]_vars

\* A living creature has just skipped its turn: the skip_attack event is the
\* latest of the tick, and the opponent, whose turn came first, has attacked.
SkipFlagWitness ==
    /\ phase \in {"turn2", "decay"}
    /\ Len(tick_events) >= 2
    /\ tick_events[Len(tick_events)].type = "skip_attack"
    /\ tick_events[Len(tick_events) - 1].type = "attack"
    /\ \A s \in Sides : cr[s].current_hp > 0 /\ ~cr[s].skip_next_attack

W16 == 256 * 256
Pow2(n) == 2 ^ n
Bit(x, i) == (x \div Pow2(i)) % 2

RECURSIVE Bitwise16(_, _, _, _)
Bitwise16(op, x, y, i) ==
    IF i = 16 THEN 0
    ELSE (IF op = "xor" THEN (Bit(x, i) + Bit(y, i)) % 2 ELSE Bit(x, i) * Bit(y, i)) * Pow2(i)
         + Bitwise16(op, x, y, i + 1)

WordXor(a, b) == <<Bitwise16("xor", a[1], b[1], 0), Bitwise16("xor", a[2], b[2], 0)>>
WordAnd(a, b) == <<Bitwise16("and", a[1], b[1], 0), Bitwise16("and", a[2], b[2], 0)>>
WordNot(a) == <<W16 - 1 - a[1], W16 - 1 - a[2]>>
\* addition modulo 2^32
WordAdd(a, b) == <<(a[1] + b[1] + (a[2] + b[2]) \div W16) % W16, (a[2] + b[2]) % W16>>

RotrLow(w, n) ==
    <<(w[1] \div Pow2(n)) + (w[2] % Pow2(n)) * Pow2(16 - n),
      (w[2] \div Pow2(n)) + (w[1] % Pow2(n)) * Pow2(16 - n)>>
Rotr(w, n) == IF n >= 16 THEN RotrLow(<<w[2], w[1]>>, n - 16) ELSE RotrLow(w, n)
Shr(w, n) == <<w[1] \div Pow2(n), (w[2] \div Pow2(n)) + (w[1] % Pow2(n)) * Pow2(16 - n)>>

BigSigma0(x) == WordXor(WordXor(Rotr(x, 2), Rotr(x, 13)), Rotr(x, 22))
BigSigma1(x) == WordXor(WordXor(Rotr(x, 6), Rotr(x, 11)), Rotr(x, 25))
SmallSigma0(x) == WordXor(WordXor(Rotr(x, 7), Rotr(x, 18)), Shr(x, 3))
SmallSigma1(x) == WordXor(WordXor(Rotr(x, 17), Rotr(x, 19)), Shr(x, 10))
Ch(e, f, g) == WordXor(WordAnd(e, f), WordAnd(WordNot(e), g))
Maj(a, b, c) == WordXor(WordXor(WordAnd(a, b), WordAnd(a, c)), WordAnd(b, c))

\* The initial hash value and the round constants of SHA-256
SHA_H0 ==
    <<<<27145, 58983>>, <<47975, 44677>>, <<15470, 62322>>, <<42319, 62778>>,
      <<20750, 21119>>, <<39685, 26764>>, <<8067, 55723>>, <<23520, 52505>>>>

SHA_K ==
    <<<<17034, 12184>>, <<28983, 17553>>, <<46528, 64463>>, <<59829, 56229>>,
      <<14678, 49755>>, <<23025, 4593>>, <<37439, 33444>>, <<43804, 24277>>,
      <<55303, 43672>>, <<4739, 23297>>, <<9265, 34238>>, <<21772, 32195>>,
      <<29374, 23924>>, <<32990, 45566>>, <<39900, 1703>>, <<49563, 61812>>,
      <<58523, 27073>>, <<61374, 18310>>, <<4033, 40390>>, <<9228, 41420>>,
      <<11753, 11375>>, <<19060, 33962>>, <<23728, 43484>>, <<30457, 35034>>,
      <<38974, 20818>>, <<43057, 50797>>, <<45059, 10184>>, <<48985, 32711>>,
      <<50912, 3059>>, <<54695, 37191>>, <<1738, 25425>>, <<5161, 10599>>,
      <<10167, 2693>>, <<11803, 8504>>, <<19756, 28156>>, <<21304, 3347>>,
      <<25866, 29524>>, <<30314, 2747>>, <<33218, 51502>>, <<37490, 11397>>,
      <<41663, 59553>>, <<43034, 26187>>, <<49739, 35696>>, <<51052, 20899>>,
      <<53650, 59417>>, <<54937, 1572>>, <<62478, 13701>>, <<4202, 41072>>,
      <<6564, 49430>>, <<7735, 27656>>, <<10056, 30540>>, <<13488, 48309>>,
      <<14620, 3251>>, <<20184, 43594>>, <<23452, 51791>>, <<26670, 28659>>,
      <<29839, 33518>>, <<30885, 25455>>, <<33992, 30740>>, <<36039, 520>>,
      <<37054, 65530>>, <<42064, 27883>>, <<48889, 41975>>, <<50801, 30962>>>>

\* The padded block of a message shorter than 56 bytes, as 16 big-endian words
Padded(bytes) ==
    [i \in 1..64 |->
        IF i <= Len(bytes) THEN bytes[i]
        ELSE IF i = Len(bytes) + 1 THEN 128
        ELSE IF i = 63 THEN (8 * Len(bytes)) \div 256
        ELSE IF i = 64 THEN (8 * Len(bytes)) % 256
        ELSE 0]
WordsOf(b) ==
    [j \in 1..(Len(b) \div 4) |->
        <<b[4 * j - 3] * 256 + b[4 * j - 2], b[4 * j - 1] * 256 + b[4 * j]>>]
Block(bytes) == WordsOf(Padded(bytes))

\* The word of round t (0-based) from the window w of the 16 latest words
ScheduleWord(w, t) ==
    IF t < 16 THEN w[t + 1]
    ELSE WordAdd(WordAdd(SmallSigma1(w[15]), w[10]), WordAdd(SmallSigma0(w[2]), w[1]))

\* One round of the compression function on the registers r = <<a, ..., h>>
Round(r, k, wt) ==
    LET Step(t1, t2) ==
            <<WordAdd(t1, t2), r[1], r[2], r[3], WordAdd(r[4], t1), r[5], r[6], r[7]>>
    IN  Step(WordAdd(WordAdd(WordAdd(r[8], BigSigma1(r[5])), Ch(r[5], r[6], r[7])),
                     WordAdd(k, wt)),
             WordAdd(BigSigma0(r[1]), Maj(r[1], r[2], r[3])))

WordBytes(w) == <<w[1] \div 256, w[1] % 256, w[2] \div 256, w[2] % 256>>

\* .digest(): the 32 bytes of the eight words SHA_H0[i] + r[i]
Digest(r) ==
    [i \in 1..32 |-> WordBytes(WordAdd(SHA_H0[(i + 3) \div 4], r[(i + 3) \div 4]))[((i - 1) % 4) + 1]]

\* struct.pack: ">I", ">B" and ">Q" (of a value below 2^31) in big-endian order
PackI(x) == <<(x \div (256 * W16)) % 256, (x \div W16) % 256, (x \div 256) % 256, x % 256>>
PackB(x) == <<x>>
PackQ(x) == <<0, 0, 0, 0>> \o PackI(x)

\* An unpacking that reads the four bytes in little-endian order (a variant of
\* UnpackI)
UnpackILittleEndian(b) == <<b[4] * 256 + b[3], b[2] * 256 + b[1]>>

\* struct.unpack(">I", b)[0] as a word
UnpackI(b) == <<b[1] * 256 + b[2], b[3] * 256 + b[4]>>

\* seed & 0xFFFFFFFF of a seed <<top, hi, lo>> = top * 2^32 + hi * 2^16 + lo
Mask32(seed) == <<seed[2], seed[3]>>

\* seeded_random(seed) from the digest: raw = unpack(">Q", h[:8]), normalized =
\* raw / 2^64.  The result keeps the first 32 bits of raw and the value in ppm.
\* A raw whose first 48 bits are all 1 may round to the upper end of the range.
Normalized(h) ==
    LET Of(w1, w2) ==
            [word |-> w1,
             unit |-> (w1[1] * 15625 + (w1[2] * 15625) \div W16) \div 1024,
             rounds_up |-> IF w1 = <<W16 - 1, W16 - 1>> /\ w2[1] = W16 - 1
                           THEN BOOLEAN ELSE {FALSE}]
    IN  Of(UnpackI(SubSeq(h, 1, 4)), UnpackI(SubSeq(h, 5, 8)))

DeriveFns == {"derive_tick_seed", "derive_hit_seed", "derive_proc_seed"}

\* The start of a call: the message is packed and the hash begins
HashStart(fn, args, bytes) ==
    [fn |-> fn, args |-> args,
     out |-> [stage |-> "hash", t |-> 0, w |-> Block(bytes), r |-> SHA_H0]]
Hashing == pure.fn \in DeriveFns \cup {"seeded_random"} /\ pure.out.stage = "hash"

MatchSeeds == {0, 42}
TickIndexes == {1, 2}
SmallIndexes == {0, 1}
SeedInputs == { <<0, 0, 0>>, <<1, 0, 0>>, <<0, 0, 42>>, <<5, 0, 42>>,
                <<0, W16 - 1, W16 - 1>>, <<1, W16 - 1, W16 - 1>>,
                <<0, 4660, 22136>>, <<0, 0, 7919>>, <<0, 3828, 47082>> }

CallDeriveTickSeed ==
    /\ pure = NoCall
    /\ \E ms \in MatchSeeds, t \in TickIndexes :
          pure' = HashStart("derive_tick_seed", <<ms, t>>, PackQ(ms) \o PackI(t))
    /\ UNCHANGED engine_vars

CallDeriveHitSeed ==
    /\ pure = NoCall
    /\ \E ms \in MatchSeeds, t \in TickIndexes, ai \in SmallIndexes :
          pure' = HashStart("derive_hit_seed", <<ms, t, ai>>,
                            PackQ(ms) \o PackI(t) \o PackI(ai))
    /\ UNCHANGED engine_vars

CallDeriveProcSeed ==
    /\ pure = NoCall
    /\ \E ms \in MatchSeeds, t \in TickIndexes, ci \in SmallIndexes, ai \in SmallIndexes :
          pure' = HashStart("derive_proc_seed", <<ms, t, ci, ai>>,
                            PackQ(ms) \o PackI(t) \o PackB(ci) \o PackB(ai))
    /\ UNCHANGED engine_vars

CallSeededRandom ==
    /\ pure = NoCall
    /\ \E seed \in SeedInputs :
          pure' = HashStart("seeded_random", seed, WordBytes(Mask32(seed)))
    /\ UNCHANGED engine_vars

HashRound ==
    /\ Hashing
    /\ pure.out.t < 64
    /\ \E wt \in {ScheduleWord(pure.out.w, pure.out.t)} :
          pure' = [pure EXCEPT
                      !.out.t = @ + 1,
                      !.out.w = IF pure.out.t < 16 THEN @ ELSE Tail(@) \o <<wt>>,
                      !.out.r = Round(@, SHA_K[pure.out.t + 1], wt)]
    /\ UNCHANGED engine_vars

HashFinish ==
    /\ Hashing
    /\ pure.out.t = 64
    /\ \E h \in {Digest(pure.out.r)} :
          IF pure.fn \in DeriveFns
          THEN pure' = [pure EXCEPT !.out = [stage |-> "done", value |-> UnpackI(SubSeq(h, 1, 4))]]
          ELSE \E n \in {Normalized(h)} : \E up \in n.rounds_up :
                  pure' = [pure EXCEPT !.out =
                              [stage |-> "done",
                               value |-> [word |-> n.word, unit |-> n.unit, at_max |-> up]]]
    /\ UNCHANGED engine_vars

NextSeed ==
    \/ CallDeriveTickSeed \/ CallDeriveHitSeed \/ CallDeriveProcSeed \/ CallSeededRandom
    \/ HashRound \/ HashFinish

SpecSeed == InitPure /\ [][NextSeed]_vars

(***************************************************************************)
(* Poison: the venom proc and the damage-over-time phase, tick after tick  *)
(***************************************************************************)
MaxVenomTicks == 5

\* The effects a creature may carry when the venom proc first meets it
StartEffects ==
    LET V(n) == Effect("ability_venom", n, 2)
    IN  { << >>, <<Effect("bleed", 3, 2)>>, <<V(1), V(2)>>, <<V(3), V(3), V(3)>>,
          <<V(1), Effect("bleed", 2, 2), V(2), V(3)>> }

Snake == CreateCreature(Build("snake", 5, 5, 5, 5), "a", 0)

Poisoning == pure.fn = "venom"

\* The victim enters the proc phase of a tick
VenomStart ==
    /\ pure = NoCall
    /\ \E es \in StartEffects :
          pure' = [fn |-> "venom", args |-> <<es>>,
                   out |-> [o |-> [input.b EXCEPT !.active_effects = es],
                            before |-> es, did |-> "start", n |-> 0]]
    /\ UNCHANGED engine_vars

\* roll_ability_procs of the snake: the venom roll fails or succeeds, and
\* _apply_ability_proc acts on the victim
VenomProc ==
    /\ Poisoning
    /\ pure.out.did \in {"start", "dot"}
    /\ pure.out.n < MaxVenomTicks
    /\ \E hit \in BOOLEAN :
          pure' = [pure EXCEPT
                      !.out.before = pure.out.o.active_effects,
                      !.out.did = IF hit THEN "proc" ELSE "miss",
                      !.out.o = IF hit
                                THEN ApplyAbilityProc(Snake, @, ANIMAL_ABILITIES["snake"][1], "a").o
                                ELSE @]
    /\ UNCHANGED engine_vars

\* _process_dot of the victim, later in the same tick
VenomDot ==
    /\ Poisoning
    /\ pure.out.did \in {"proc", "miss"}
    /\ pure' = [pure EXCEPT
                   !.out.before = pure.out.o.active_effects,
                   !.out.did = "dot",
                   !.out.n = @ + 1,
                   !.out.o = ProcessDot(@, "b", << >>).c]
    /\ UNCHANGED engine_vars

NextVenom == VenomStart \/ VenomProc \/ VenomDot

SpecVenom == InitPure /\ [][NextVenom]_vars

\* The values that derive_tick_seed, derive_hit_seed and derive_proc_seed of
\* simulator/seed.py return, and the first 32 bits and the millionths of what
\* seeded_random(seed, 0.0, 1.0) returns, by seed mod 2^32; the last seed is
\* the one of the 2^32 seeds whose digest begins with the greatest 64 bits
KnownSeeds ==
    <<"derive_tick_seed", <<0, 1>>>> :> <<13347, 53218>>
    @@ <<"derive_hit_seed", <<0, 1, 0>>>> :> <<15295, 19909>>
    @@ <<"derive_proc_seed", <<0, 1, 0, 0>>>> :> <<38668, 2383>>
    @@ <<"derive_proc_seed", <<0, 1, 0, 1>>>> :> <<64564, 9598>>
    @@ <<"derive_hit_seed", <<0, 1, 1>>>> :> <<36643, 39461>>
    @@ <<"derive_proc_seed", <<0, 1, 1, 0>>>> :> <<20911, 10519>>
    @@ <<"derive_proc_seed", <<0, 1, 1, 1>>>> :> <<1030, 44225>>
    @@ <<"derive_tick_seed", <<0, 2>>>> :> <<47870, 50437>>
    @@ <<"derive_hit_seed", <<0, 2, 0>>>> :> <<36215, 27755>>
    @@ <<"derive_proc_seed", <<0, 2, 0, 0>>>> :> <<36907, 55661>>
    @@ <<"derive_proc_seed", <<0, 2, 0, 1>>>> :> <<33936, 58187>>
    @@ <<"derive_hit_seed", <<0, 2, 1>>>> :> <<32466, 35539>>
    @@ <<"derive_proc_seed", <<0, 2, 1, 0>>>> :> <<59667, 48690>>
    @@ <<"derive_proc_seed", <<0, 2, 1, 1>>>> :> <<27628, 45117>>
    @@ <<"derive_tick_seed", <<42, 1>>>> :> <<59234, 36164>>
    @@ <<"derive_hit_seed", <<42, 1, 0>>>> :> <<1984, 32494>>
    @@ <<"derive_proc_seed", <<42, 1, 0, 0>>>> :> <<49572, 10997>>
    @@ <<"derive_proc_seed", <<42, 1, 0, 1>>>> :> <<18079, 17208>>
    @@ <<"derive_hit_seed", <<42, 1, 1>>>> :> <<38536, 35728>>
    @@ <<"derive_proc_seed", <<42, 1, 1, 0>>>> :> <<40615, 37489>>
    @@ <<"derive_proc_seed", <<42, 1, 1, 1>>>> :> <<19339, 15159>>
    @@ <<"derive_tick_seed", <<42, 2>>>> :> <<10873, 5152>>
    @@ <<"derive_hit_seed", <<42, 2, 0>>>> :> <<56286, 25431>>
    @@ <<"derive_proc_seed", <<42, 2, 0, 0>>>> :> <<6265, 42327>>
    @@ <<"derive_proc_seed", <<42, 2, 0, 1>>>> :> <<23159, 25632>>
    @@ <<"derive_hit_seed", <<42, 2, 1>>>> :> <<23789, 20264>>
    @@ <<"derive_proc_seed", <<42, 2, 1, 0>>>> :> <<41927, 48269>>
    @@ <<"derive_proc_seed", <<42, 2, 1, 1>>>> :> <<6584, 8625>>
KnownRandoms ==
    <<0, 0>> :> [word |-> <<57151, 24984>>, unit |-> 872060]
    @@ <<0, 42>> :> [word |-> <<44604, 35725>>, unit |-> 680611]
    @@ <<65535, 65535>> :> [word |-> <<44437, 4891>>, unit |-> 678055]
    @@ <<4660, 22136>> :> [word |-> <<45805, 39201>>, unit |-> 698937]
    @@ <<0, 7919>> :> [word |-> <<33436, 51123>>, unit |-> 510204]
    @@ <<3828, 47082>> :> [word |-> <<65535, 65535>>, unit |-> 999999]

SeedDone == pure.fn \in DeriveFns \cup {"seeded_random"} /\ pure.out.stage = "done"

\* C14: a finished derive_tick_seed, derive_hit_seed or derive_proc_seed call
\* has returned the first 32 bits (big-endian) of the SHA-256 digest of its
\* packed inputs, a word in [0, 2^32) equal to the value the reference
\* implementation gives for these inputs; a finished seeded_random call has
\* returned the value that belongs to seed mod 2^32, at least the lower end of
\* its range and below the upper end.
SeedPortability ==
    SeedDone =>
        IF pure.fn \in DeriveFns
        THEN /\ pure.out.value \in (0..(W16 - 1)) \X (0..(W16 - 1))
             /\ pure.out.value = KnownSeeds[<<pure.fn, pure.args>>]
        ELSE /\ pure.out.value.word = KnownRandoms[Mask32(pure.args)].word
             /\ pure.out.value.unit = KnownRandoms[Mask32(pure.args)].unit
             /\ pure.out.value.unit \in 0..(PPM - 1)
             /\ ~pure.out.value.at_max

\* a seeded_random call with a seed of 2^32 or more has finished
SeedPortabilityWitness ==
    /\ SeedDone
    /\ pure.fn = "seeded_random"
    /\ pure.args[1] > 0
    /\ pure.out.value.unit > 0

(***************************************************************************)
(* The schedule of the safe rectangle                                      *)
(***************************************************************************)
\* The safe rectangle by the number of the hazard tick (1 = the start tick):
\* rows and columns 1..6 in the first four hazard ticks, 2..5 afterwards
ScheduledMin(t) == IF t - input.cfg.ring_start_tick + 1 <= 4 THEN 1 ELSE 2
ScheduledMax(t) == IF t - input.cfg.ring_start_tick + 1 <= 4 THEN 6 ELSE 5

OutsideScheduled(c, t) ==
    \E p \in OccupiedCells(c.position, c.size) :
        \/ p.row < ScheduledMin(t) \/ p.row > ScheduledMax(t)
        \/ p.col < ScheduledMin(t) \/ p.col > ScheduledMax(t)

ScheduleStep ==
    (phase = "ring" /\ tick >= input.cfg.ring_start_tick) =>
        \A s \in Sides :
            OutsideScheduled(cr[s], tick)
                <=> (CountEvents(tick_events', "ring_damage", s)
                        > CountEvents(tick_events, "ring_damage", s))

\* C15: in every hazard tick the creatures damaged by the hazard zone are those
\* with a cell outside rows and columns 1..6 in the ticks start .. start+3, and
\* those with a cell outside rows and columns 2..5 from tick start+4 on.
HazardSchedule == [][ScheduleStep]_vars

(***************************************************************************)
(* The fury window                                                         *)
(***************************************************************************)
\* the fury window of side s has been opened and has run out in its lifetime
FuryRunOut(s) ==
    /\ cr[s].passive = "fury_protocol"
    /\ cr[s].current_hp > 0
    /\ cr[s].fury_triggered
    /\ cr[s].fury_active_ticks = 0

\* C16: the fury bonus is in effect in the attack phases of at most three ticks
\* of a match, only once the creature's fury has triggered, and once the window
\* has run out it has been in effect in the attack phases of exactly three ticks.
FuryWindow ==
    \A s \in Sides :
        /\ fury_ticks[s] <= 3
        /\ fury_ticks[s] > 0 => cr[s].fury_triggered
        /\ FuryRunOut(s) => fury_ticks[s] = 3

(***************************************************************************)
(* The lifetime of a buff                                                  *)
(***************************************************************************)
\* the phases of a tick that come before its buff decay has run
BeforeDecay == {"turn1", "turn2", "decay"}

\* The ticks a buff has been through: its counter is the attached duration less
\* the decays since its attachment, and the state lies between the proc phase
\* of the tick of attachment and the decay of the tick attached_tick + duration
BuffAge(b) ==
    /\ b.remaining_ticks >= 1
    /\ b.attached_tick >= 1
    /\ tick >= b.attached_tick
    /\ tick = b.attached_tick => phase \notin BeforeDecay \cup {"proc1"}
    /\ b.remaining_ticks =
          b.attached_duration - (tick - b.attached_tick) + (IF phase \in BeforeDecay /\ tick > b.attached_tick THEN 1 ELSE 0)
    /\ tick <= b.attached_tick + b.attached_duration
    /\ tick = b.attached_tick + b.attached_duration => phase \in BeforeDecay
    /\ (b.ability_type \in NextHitBuffs /\ ~b.is_mimic_copy) => b.attached_duration = 1

BuffAges == \A s \in Sides : \A i \in DOMAIN cr[s].active_buffs : BuffAge(cr[s].active_buffs[i])

ConsumedBuffs == {"trick", "thick_hide_ability", "exoskeleton"}
SameBuff(b, c) ==
    /\ b.ability_type = c.ability_type
    /\ b.is_mimic_copy = c.is_mimic_copy
    /\ b.attached_tick = c.attached_tick
    /\ b.attached_duration = c.attached_duration

\* A step keeps every buff that is neither consumed nor in its last decay
BuffsKept ==
    phase \notin {"done", "error", "setup"} =>
        \A s \in Sides : \A i \in DOMAIN cr[s].active_buffs :
            LET b == cr[s].active_buffs[i]
            IN  \/ \E j \in DOMAIN cr'[s].active_buffs : SameBuff(b, cr'[s].active_buffs[j])
                \/ b.ability_type \in ConsumedBuffs
                \/ phase = "decay" /\ tick = b.attached_tick + b.attached_duration

\* C17: every buff has remaining_ticks >= 1; a buff attached with duration d in
\* the proc phase of tick t exists only between that proc phase and the decay
\* of tick t+d, which comes before the proc phase of tick t+d, and unless it
\* is consumed it is kept by every step until that decay, so that it is present
\* in the attack phases of the ticks t+1 .. t+d; a "next hit" buff has d = 1.
BuffLifetime == [][BuffAges' /\ BuffsKept]_vars

\* A buff attached with a duration of two ticks or more is present in the
\* attack phase of its last tick
BuffLifetimeWitness ==
    /\ phase = "turn2"
    /\ \E s \in Sides : \E i \in DOMAIN cr[s].active_buffs :
          /\ cr[s].active_buffs[i].attached_duration >= 2
          /\ tick = cr[s].active_buffs[i].attached_tick + cr[s].active_buffs[i].attached_duration

(***************************************************************************)
(* Cancelled procs                                                         *)
(***************************************************************************)
TrickCount(c) ==
    Cardinality({ i \in DOMAIN c.active_buffs : c.active_buffs[i].ability_type = "trick" })

CountFor(events, type, side, ability) ==
    Cardinality({ k \in DOMAIN events :
                    /\ events[k].type = type
                    /\ events[k].side = side
                    /\ events[k].ability = ability })

\* The buffs of c that are no Trick buffs
OtherBuffs(c) == SelectSeq(c.active_buffs, LAMBDA b : b.ability_type # "trick")

\* The proc phase of side s (number idx) against o, by the draws of its rolls:
\* ability i has won its proc roll, has been resisted, has been reflected
ProcPhaseLaw(s, o, idx, new) ==
    LET Type(i) == cr[s].abilities[i].ability_type
        Won(i) ==
            /\ ~SkipsRoll(cr[s], cr[s].abilities[i])
            /\ SeededBool(oracle'[Key("proc", tick, idx, i)], EffProc(cr[s], cr[s].abilities[i]))
        Resisted(i) ==
            /\ Won(i)
            /\ SeededBool(oracle'[Key("resist", tick, idx, i)], WilResistChance(cr[o]))
        Reflected(i) == CountFor(new, "trick_reflected", s, Type(i)) = 1
        Held(i) == TrickCount(cr[o]) - (IF i = 2 /\ Reflected(1) THEN 1 ELSE 0)
        Applied(i) == CountFor(new, "ability_proc", s, Type(i))
    IN  /\ \A i \in 1..2 :
              /\ Resisted(i) =>
                    /\ CountFor(new, "ability_resisted", s, Type(i)) = 1
                    /\ CountFor(new, "trick_reflected", s, Type(i)) = 0
                    /\ Applied(i) = 0
              /\ (Won(i) /\ ~Resisted(i) /\ Held(i) > 0) =>
                    /\ Reflected(i)
                    /\ CountFor(new, "ability_resisted", s, Type(i)) = 0
                    /\ Applied(i) = 0
              /\ (Won(i) /\ ~Resisted(i) /\ Held(i) = 0) =>
                    /\ Applied(i) = 1
                    /\ CountFor(new, "ability_resisted", s, Type(i)) = 0
                    /\ CountFor(new, "trick_reflected", s, Type(i)) = 0
              /\ ~Won(i) => \A k \in DOMAIN new : new[k].ability # Type(i)
        /\ TrickCount(cr'[o]) =
              TrickCount(cr[o]) - Cardinality({ i \in 1..2 : Reflected(i) })
        /\ (\A i \in 1..2 : Applied(i) = 0) =>
              /\ Fields(cr'[s]) = Fields(cr[s])
              /\ Fields([cr'[o] EXCEPT !.active_buffs = <<>>])
                    = Fields([cr[o] EXCEPT !.active_buffs = <<>>])
              /\ OtherBuffs(cr'[o]) = OtherBuffs(cr[o])

CancelStep ==
    (phase \in {"proc1", "proc2"} /\ cr[SideOf(phase)].current_hp > 0) =>
        ProcPhaseLaw(SideOf(phase), Other(SideOf(phase)), SideIndex(SideOf(phase)), NewEvents)

\* C18: a proc roll that succeeded is resisted when its resist roll says so,
\* whether or not the opponent holds a Trick buff, and then logs
\* ability_resisted and leaves the Trick buff in place; when it is not resisted
\* and the opponent holds a Trick buff, exactly one Trick buff is removed and
\* trick_reflected is logged; neither case logs ability_proc, and a proc phase
\* whose procs were all cancelled leaves both creatures as they were (HP,
\* effects, skip flag, used flags, last_ability_procced) but for the removed
\* Trick buffs.
ProcCancellation == [][CancelStep]_vars

\* a proc was resisted while the opponent held a Trick buff, which it still holds
ProcCancellationWitness ==
    /\ phase = "fury"
    /\ tick_events # <<>>
    /\ LET e == tick_events[Len(tick_events)]
       IN  /\ e.type = "ability_resisted"
           /\ TrickCount(cr[Other(e.side)]) = 1

(***************************************************************************)
(* Every ability marked single use                                         *)
(***************************************************************************)
\* C19: no creature logs more than one ability_proc event in a match for an
\* ability that the ability tables mark is_single_charge.
EverySingleChargeOnce ==
    \A s \in Sides : \A t \in SingleChargeTypes : proc_events[s][t] <= 1

(***************************************************************************)
(* The strength of a Mimic copy                                            *)
(***************************************************************************)
MimicCalls == {"apply_ability_attack_mods", "_apply_attack_passives", "get_effective_dodge"}

\* C20: the change a Mimic copy of a buff makes to the attack multiplier or to
\* the dodge chance is 75% of the change the original buff makes (+30% becomes
\* +22.5%, x0.60 becomes x0.70), for every kind that Mimic can copy.
MimicStrength ==
    pure.fn \in MimicCalls =>
        (pure.out.copy - pure.out.base) * 4 = (pure.out.full - pure.out.base) * 3

(***************************************************************************)
(* The cells of the grid                                                   *)
(***************************************************************************)
Footprint(c) == OccupiedCells(c.position, c.size)
GridCells == { Pos(e.row, e.col) : e \in cells }

\* C21: once both creatures are placed, the cells that the grid records as
\* occupied are the cells of the two creatures' footprints and no others.
GridOccupancy ==
    phase \notin {"setup", "error"} => GridCells = Footprint(cr["a"]) \cup Footprint(cr["b"])

(***************************************************************************)
(* Who attacks, and when                                                   *)
(***************************************************************************)
Touching(x, y) == \E p \in Footprint(x), q \in Footprint(y) : Distance(p, q) <= 1

AttackStep ==
    /\ \A i \in 1..Len(NewEvents) :
          NewEvents[i].type = "attack" =>
              /\ phase \in {"turn1", "turn2"}
              /\ NewEvents[i].side = SideOf(phase)
              /\ cr[SideOf(phase)].current_hp > 0
              /\ cr[Other(SideOf(phase))].current_hp > 0
              /\ Touching(cr'[SideOf(phase)], cr'[Other(SideOf(phase))])
              /\ attack_index' = attack_index + 1
    /\ (phase \in {"turn1", "turn2", "proc1", "proc2"} /\ cr[SideOf(phase)].current_hp <= 0) =>
          /\ NewEvents = << >>
          /\ cr' = cr
          /\ cells' = cells
          /\ attack_index' = attack_index
          /\ proc_made' = proc_made
          /\ oracle' = oracle
    /\ \A s \in Sides : CountEvents(tick_events', "attack", s) <= 1

\* C22: an attack is resolved only in the turn of a side that has HP > 0,
\* against an opponent with HP > 0 whose footprint is within Chebyshev
\* distance 1 of the side's own; a creature with HP <= 0 neither moves nor
\* attacks nor rolls procs in its turn; no side attacks twice in a tick.
AttackConditions == [][AttackStep]_vars

\* The first side's attack killed the second, whose turn then did nothing.
AttackConditionsWitness ==
    /\ phase = "decay"
    /\ cr[turn_order[2]].current_hp <= 0
    /\ CountEvents(tick_events, "attack", turn_order[1]) = 1
    /\ CountEvents(tick_events, "attack", turn_order[2]) = 0

(***************************************************************************)
(* Fury and Berserker Rage                                                 *)
(***************************************************************************)
\* The largest of 1.0, the fury factor and the factors of the rage buffs held
LargestFactor(fury, bs) ==
    Max(IF fury THEN 15000 ELSE ONE,
        IF \E i \in 1..Len(bs) : ~bs[i].is_mimic_copy THEN 16000
        ELSE IF bs # << >> THEN 14500 ELSE ONE)

\* C23: the attack multiplier of an attacker with a running fury window
\* and Berserker Rage buffs is multiplied once, by the larger of 1.5 and the
\* rage factor (1.6, or 1.45 for a Mimic copy); the factors are never
\* multiplied together and several rage buffs count once.
FuryRageNoStack ==
    pure.fn = "CombatEngine._apply_attack_passives" =>
        pure.out * ONE = pure.args[3] * LargestFactor(pure.args[1], pure.args[2])

FuryRageNoStackWitness ==
    /\ pure.fn = "CombatEngine._apply_attack_passives"
    /\ pure.args[1]
    /\ Len(pure.args[2]) = 2
    /\ pure.args[3] = 13000
    /\ pure.out = 20800

(***************************************************************************)
(* The one-shot passives                                                   *)
(***************************************************************************)
\* C24: of the attacks a creature with the first-strike passive resolves,
\* the first one gets the x1.5 bonus, dodged and blocked attacks included,
\* and no later one does.
FirstStrikeOnce ==
    \A s \in Sides :
        cr[s].passive = "charge" =>
            /\ strikes[s].charged = Min(1, strikes[s].resolved)
            /\ cr[s].charge_used <=> strikes[s].resolved > 0

\* The creature's first attack was dodged, and it has attacked again.
FirstStrikeOnceWitness ==
    \E s \in Sides :
        /\ cr[s].passive = "charge"
        /\ strikes[s].resolved = MaxStrikes
        /\ strikes[s].charged = 1
        /\ strikes[Other(s)].received < strikes[s].resolved

\* C25: of the attacks that reach a creature with the thick-hide passive
\* undodged, the first one is halved (rounded down, at least 1) before any
\* ability block, which uses the flag up even if the block then takes the
\* damage to 0, and no later one is halved.
ThickHideOnce ==
    \A s \in Sides :
        cr[s].passive = "thick_hide" =>
            /\ strikes[s].halved = Min(1, strikes[s].received)
            /\ cr[s].first_hit_taken <=> strikes[s].received > 0

\* Two attacks have reached the creature, and one of them was halved.
ThickHideOnceWitness ==
    \E s \in Sides :
        /\ cr[s].passive = "thick_hide"
        /\ strikes[s].received = MaxStrikes
        /\ strikes[s].halved = 1

(***************************************************************************)
(* The block buffs                                                         *)
(***************************************************************************)
\* The list bs without one instance of kind t
OneRemoved(bs, out, t) ==
    \E i \in 1..Len(bs) : bs[i].ability_type = t /\ out = RemoveAt(bs, i)

HasKind(bs, t) == \E i \in 1..Len(bs) : bs[i].ability_type = t

RECURSIVE Aged(_)
Aged(es) ==
    IF es = << >> THEN << >>
    ELSE (IF Head(es).remaining_ticks > 1
          THEN <<[Head(es) EXCEPT !.remaining_ticks = @ - 1]>> ELSE << >>) \o Aged(Tail(es))

CountVenoms(es) == Cardinality({ i \in 1..Len(es) : es[i].name = "ability_venom" })

\* C27: a creature carries at most 3 poison effects at a time; a venom
\* proc on a creature with 3 adds none and otherwise adds one; in the
\* damage-over-time phase every effect counts down by one and is dropped at 0
\* whatever the other effects are.
VenomCap ==
    Poisoning =>
        LET es == pure.out.o.active_effects
            before == pure.out.before
        IN  /\ CountVenoms(es) <= 3
            /\ pure.out.did = "proc" =>
                  IF CountVenoms(before) >= 3 THEN es = before
                  ELSE /\ Len(es) = Len(before) + 1
                       /\ SubSeq(es, 1, Len(before)) = before
                       /\ es[Len(es)].name = "ability_venom"
            /\ pure.out.did = "miss" => es = before
            /\ pure.out.did = "dot" => es = Aged(before)

\* Three procs in three ticks: the creature carries three poison effects
\* with 3, 2 and 1 ticks left, then one runs out while the others stay.
VenomCapWitness ==
    /\ Poisoning
    /\ pure.args[1] = << >>
    /\ pure.out.did = "dot"
    /\ CountVenoms(pure.out.before) = 3
    /\ CountVenoms(pure.out.o.active_effects) = 2

(***************************************************************************)
(* The effective dodge chance                                              *)
(***************************************************************************)
\* C28: get_effective_dodge returns a probability, a value from 0 to 1,
\* for every base dodge chance and every list of buffs, and returns 1 when
\* the list holds a Coil buff, whatever else it holds.
EffectiveDodgeRange ==
    pure.fn = "abilities.get_effective_dodge" =>
        /\ 0 <= pure.out /\ pure.out <= PPM
        /\ HasKind(pure.args[1], "coil") => pure.out = PPM

\* Calls that need the clamp at 0, the clamp at 1, and the Coil override
EffectiveDodgeRangeWitness ==
    /\ pure.fn = "abilities.get_effective_dodge"
    /\ pure.args[1] = <<Buff("hamstring", 1, "a", FALSE), Buff("berserker_rage", 1, "a", FALSE),
                        Buff("coil", 1, "a", TRUE)>>
    /\ pure.out = PPM

(***************************************************************************)
(* Pathing                                                                 *)
(***************************************************************************)
\* p comes before q: it is nearer to the target, or as near and smaller by
\* row, then column
Nearer(p, q, target) ==
    \/ Distance(p, target) < Distance(q, target)
    \/ Distance(p, target) = Distance(q, target) /\ PosLess(p, q)

\* The positions the creature of side s may end its move on: its own, and
\* those within its movement range where its footprint is on the board and
\* on no cell of the other creature
Reachable(s) ==
    LET c == cr[s]
        m == c.movement_range
    IN  {c.position} \cup
        { p \in { Pos(c.position.row + dr, c.position.col + dc) :
                    dr \in (0 - m)..m, dc \in (0 - m)..m } :
            /\ IsValidPosition(p, c.size)
            /\ OccupiedCells(p, c.size) \cap Footprint(cr[Other(s)]) = {} }

PathStep ==
    \A s \in Sides :
        (/\ phase \in {"turn1", "turn2"}
         /\ s = SideOf(phase)
         /\ cr[s].current_hp > 0
         /\ ~cr[s].skip_next_attack
         /\ ~Touching(cr[s], cr[Other(s)])
         /\ phase' # "error")
        => /\ cr'[s].position \in Reachable(s)
           /\ \A q \in Reachable(s) \ {cr'[s].position} :
                 Nearer(cr'[s].position, q, cr[Other(s)].position)

\* C29: a creature that moves ends on the position that is nearest to the
\* target (Chebyshev), and the smallest by row and then column among the
\* nearest, of its own position and the positions within its movement range
\* that are on the board for its footprint and not occupied by the other
\* creature.
GreedyPath == [][PathStep]_vars

(***************************************************************************)
(* Starting positions                                                      *)
(***************************************************************************)
Placed(p, size) == [position |-> p, size |-> size, in_grid |-> FALSE]

\* C30: for every footprint and every draw, generate_starting_position
\* returns a position with the footprint on the 8x8 board, the column from 0 to
\* 8 - cols; side a starts on row 0 or 1, side b with its footprint ending on
\* the last row; the two footprints share no cell, and run_combat's two
\* placements succeed.
StartingPositions ==
    pure.fn = "generate_starting_position" =>
        LET size_a == pure.args[1]
            size_b == pure.args[2]
            a == pure.out.a
            b == pure.out.b
        IN  /\ a.col \in 0..(GridSize - size_a.cols)
            /\ b.col \in 0..(GridSize - size_b.cols)
            /\ a.row \in 0..1
            /\ a.row + size_a.rows <= GridSize
            /\ b.row >= 0
            /\ b.row + size_b.rows = GridSize
            /\ OccupiedCells(a, size_a) \cap OccupiedCells(b, size_b) = {}
            /\ ~PlaceFails({}, Placed(a, size_a), "a")
            /\ ~PlaceFails(PlaceCells({}, Placed(a, size_a), "a"), Placed(b, size_b), "b")

\* Two creatures of the largest footprint, the draw at the top of its range
StartingPositionsWitness ==
    /\ pure.fn = "generate_starting_position"
    /\ pure.args = <<Size(3, 2), Size(3, 2), 999999>>
    /\ pure.out = [a |-> Pos(0, 6), b |-> Pos(5, 6)]

\* The cells of a board that a side other than s holds, and the board's
\* occupancy as a set of (cell, side)
HeldByOther(g, s) == { Pos(e.row, e.col) : e \in { x \in g : x.side # s } }
Occupancy(g) == { <<Pos(e.row, e.col), e.side>> : e \in g }

\* C31: place_creature raises exactly when the footprint is not wholly on
\* the board or one of its cells is held by the other creature; move_creature
\* raises exactly when the target is farther than movement_range, or the
\* footprint at the target is not wholly on the board or overlaps the other
\* creature.  A call that raises leaves the occupancy as it was; one that does
\* not leaves the creature's footprint at the new position and the other
\* creature's cells alone.
FailedCallKeepsGrid ==
    pure.fn \in {"Grid.place_creature", "Grid.move_creature"} =>
        LET g == pure.args[1]
            c == pure.args[2]
            at == IF pure.fn = "Grid.move_creature" THEN pure.args[3] ELSE c.position
            bad == \/ pure.fn = "Grid.move_creature" /\ Distance(c.position, at) > c.movement_range
                   \/ ~IsValidPosition(at, c.size)
                   \/ OccupiedCells(at, c.size) \cap HeldByOther(g, "a") # {}
        IN  /\ pure.out.raised = bad
            /\ pure.out.raised => Occupancy(pure.out.cells) = Occupancy(g)
            /\ ~pure.out.raised =>
                  Occupancy(pure.out.cells) =
                     { x \in Occupancy(g) : x[2] # "a" }
                     \cup { <<q, "a">> : q \in OccupiedCells(at, c.size) }

\* A move within range onto the other creature's cells raised, with both
\* creatures on the board before and after
FailedCallKeepsGridWitness ==
    /\ pure.fn = "Grid.move_creature"
    /\ pure.out.raised
    /\ Distance(pure.args[2].position, pure.args[3]) <= pure.args[2].movement_range
    /\ IsValidPosition(pure.args[3], pure.args[2].size)
    /\ OccupiedCells(pure.args[3], pure.args[2].size) \cap HeldByOther(pure.args[1], "a") # {}
    /\ \E x \in Occupancy(pure.out.cells) : x[2] = "a"

\* C32: with integer speeds and any two jitter draws the side with the
\* strictly higher speed is first in the turn order; with equal speeds the
\* order follows the jitter, side a first unless b's draw is higher.
FasterFirst ==
    pure.fn = "run_combat.turn_order" =>
        LET spd_a == pure.args[1]
            spd_b == pure.args[2]
            ua == pure.args[3]
            ub == pure.args[4]
        IN  /\ spd_a > spd_b => pure.out = <<"a", "b">>
            /\ spd_b > spd_a => pure.out = <<"b", "a">>
            /\ spd_a = spd_b =>
                  pure.out = IF (ub * 49) \div 100 > (ua * 49) \div 100
                             THEN <<"b", "a">> ELSE <<"a", "b">>

\* Side a one point faster with the lowest draw, b with the highest, and
\* a first
FasterFirstWitness ==
    /\ pure.fn = "run_combat.turn_order"
    /\ pure.args[1] = pure.args[2] + 1
    /\ pure.args[3] = 0 /\ pure.args[4] = 999999
    /\ pure.out = <<"a", "b">>

\* The move events of side s among events
MovesOf(events, s) == CountEvents(events, "move", s)

\* C33: a creature's position changes only in its own turn, while the two
\* are not adjacent, and with a move event of its side; once the two are
\* adjacent no step changes a position or logs a move event, and they stay
\* adjacent.
PositionsFreeze ==
    [][ /\ \A s \in Sides :
              cr'[s].position # cr[s].position =>
                 /\ phase \in {"turn1", "turn2"}
                 /\ s = SideOf(phase)
                 /\ ~IsAdjacent(cr["a"], cr["b"])
                 /\ MovesOf(NewEvents, s) = 1
        /\ IsAdjacent(cr["a"], cr["b"]) =>
              /\ \A s \in Sides : cr'[s].position = cr[s].position
              /\ \A s \in Sides : MovesOf(NewEvents, s) = 0
              /\ IsAdjacent(cr'["a"], cr'["b"]) ]_vars

\* The end of a tick with the two adjacent, both away from where they
\* started, both having attacked in the tick
PositionsFreezeWitness ==
    /\ phase = "check"
    /\ IsAdjacent(cr["a"], cr["b"])
    /\ \A s \in Sides :
          /\ cr[s].position # input[s].position
          /\ CountEvents(tick_events, "attack", s) = 1
          /\ MovesOf(tick_events, s) = 0

\* The Trick buffs a creature holds
TrickBuffs(c) == SelectSeq(c.active_buffs, LAMBDA b : b.ability_type = "trick")

NoRevival ==
    /\ [][\A s \in Sides : cr[s].current_hp <= 0 => cr'[s].current_hp <= 0]_vars
    /\ [](phase = "turn1" => \A s \in Sides : cr[s].current_hp > 0 /\ hp_start[s] > 0)

\* A creature that has a second wind left is at 0 HP or less, within the
\* reach of the heal, after the second wind and regeneration steps of the tick
NoRevivalWitness ==
    /\ phase = "check"
    /\ \E s \in Sides :
          /\ cr[s].second_wind_available /\ ~cr[s].second_wind_triggered
          /\ cr[s].current_hp <= 0
          /\ cr[s].current_hp + (cr[s].max_hp * 25) \div 100 > 0

\* C36: in every reachable state the footprints of the two creatures lie on
\* the board and share no cell, and the match has not stopped on a placement
\* error; no step moves a creature farther than its movement_range.
FootprintsApart ==
    /\ [](/\ phase # "error"
          /\ \A s \in Sides : IsValidPosition(cr[s].position, cr[s].size)
          /\ Footprint(cr["a"]) \cap Footprint(cr["b"]) = {})
    /\ [][\A s \in Sides :
            Distance(cr[s].position, cr'[s].position) <= cr[s].movement_range]_vars

\* A creature that may move two cells or more moved in the tick, away from
\* its starting row, and the two now touch
FootprintsApartWitness ==
    /\ phase = "decay"
    /\ IsAdjacent(cr["a"], cr["b"])
    /\ \E s \in Sides :
          /\ cr[s].movement_range >= 2
          /\ MovesOf(tick_events, s) = 1
          /\ cr[s].position.row # input[s].position.row

\* C37: a Mimic proc leaves the opponent as it was and changes nothing of
\* its owner but the buff list.  When the opponent's last procced ability is
\* none, Iron Will, Last Stand or Mimic the buff list stays as it was too;
\* otherwise one buff of that kind, marked as a copy, is appended to the
\* owner's list, and a copied Hamstring lowers the owner's dodge chance, not
\* the opponent's.
MimicOwnerOnly ==
    pure.fn = "_apply_ability_proc.mimic" =>
        LET c == pure.args[1]
            o == pure.args[2]
            target == o.last_ability_procced
            bs == pure.out.c.active_buffs
        IN  /\ Fields(pure.out.o) = Fields(o)
            /\ Fields([pure.out.c EXCEPT !.active_buffs = c.active_buffs]) = Fields(c)
            /\ IF target \in {"none", "iron_will", "last_stand", "mimic"}
               THEN bs = c.active_buffs
               ELSE /\ Len(bs) = Len(c.active_buffs) + 1
                    /\ SubSeq(bs, 1, Len(c.active_buffs)) = c.active_buffs
                    /\ bs[Len(bs)].ability_type = target
                    /\ bs[Len(bs)].is_mimic_copy
                    /\ bs[Len(bs)].source_side = "a"
                    /\ bs[Len(bs)].remaining_ticks >= 1
            /\ (target = "hamstring" /\ c.dodge_chance > 0) =>
                  /\ GetEffectiveDodge(pure.out.c) < GetEffectiveDodge(c)
                  /\ GetEffectiveDodge(pure.out.o) = GetEffectiveDodge(o)

\* The opponent procced Hamstring last: the owner holds the copy and its dodge
\* chance went down
MimicOwnerOnlyWitness ==
    /\ pure.fn = "_apply_ability_proc.mimic"
    /\ pure.args[2].last_ability_procced = "hamstring"
    /\ pure.args[1].dodge_chance = 300000
    /\ HasBuff(pure.out.c, "hamstring")
    /\ ~HasBuff(pure.out.o, "hamstring")
    /\ GetEffectiveDodge(pure.out.c) < GetEffectiveDodge(pure.args[1])

\* C38: an attack by a creature that holds a Pounce, Gore or Dive buff
\* draws no dodge roll and is not dodged, whatever the defender's dodge chance
\* and buffs, Coil among them; an attack by a creature without such a buff on
\* a defender that holds Coil is dodged whatever the roll: the damage is 0 and
\* the defender's HP stays.
IgnoreDodgeBeatsCoil ==
    pure.fn = "run_combat.attack" =>
        LET att == pure.args[1]
            def == pure.args[2]
            ignores == HasBuff(att, "pounce") \/ HasBuff(att, "gore") \/ HasBuff(att, "dive")
        IN  /\ ignores => ~pure.out.rolled /\ ~pure.out.dodged
            /\ (~ignores /\ HasBuff(def, "coil")) =>
                  /\ pure.out.dodged
                  /\ pure.out.damage = 0
                  /\ pure.out.hp = def.current_hp

\* A Gore attack on a defender under Coil, with the lowest dodge draw, did
\* damage
IgnoreDodgeBeatsCoilWitness ==
    /\ pure.fn = "run_combat.attack"
    /\ HasBuff(pure.args[1], "gore")
    /\ HasBuff(pure.args[2], "coil")
    /\ pure.args[3] = 0
    /\ ~pure.out.dodged
    /\ pure.out.damage > 0
    /\ pure.out.hp < pure.args[2].current_hp

\* An event of the type, for the side and the ability, among events
Logged(events, type, side, ability) ==
    \E i \in 1..Len(events) :
        events[i].type = type /\ events[i].side = side /\ events[i].ability = ability

\* C39: in every reachable state each creature's current_hp is at most its
\* max_hp, and a step raises a creature's current_hp only as an Iron Will proc
\* of its own proc phase, as a second wind or as a regeneration, each logged
\* for the creature in that step.
HpCapped ==
    /\ [](\A s \in Sides : cr[s].current_hp <= cr[s].max_hp)
    /\ [][\A s \in Sides :
            cr'[s].current_hp > cr[s].current_hp =>
               \/ /\ phase \in {"proc1", "proc2"} /\ s = SideOf(phase)
                  /\ Logged(NewEvents, "ability_proc", s, "iron_will")
               \/ phase = "wind" /\ Logged(NewEvents, "second_wind", s, "")
               \/ phase = "regen" /\ Logged(NewEvents, "regeneration", s, "")]_vars

\* An Iron Will proc of the tick left its creature at max_hp, above the HP it
\* started the tick with
HpCappedWitness ==
    /\ phase = "fury"
    /\ \E s \in Sides :
          /\ Logged(tick_events, "ability_proc", s, "iron_will")
          /\ cr[s].current_hp = cr[s].max_hp
          /\ cr[s].current_hp > hp_start[s]
          /\ hp_start[s] + (cr[s].max_hp * 12) \div 100 > cr[s].max_hp

\* The index of the last Chaos Strike buff of a list, 0 when there is none
LastChaos(bs) ==
    IF \E i \in 1..Len(bs) : bs[i].ability_type = "chaos_strike"
    THEN CHOOSE i \in 1..Len(bs) :
            /\ bs[i].ability_type = "chaos_strike"
            /\ \A j \in (i + 1)..Len(bs) : bs[j].ability_type # "chaos_strike"
    ELSE 0

\* C40: when the attacker holds a Chaos Strike buff the multiplier after
\* apply_ability_attack_mods is the chaos roll, from 0.8 up to but not
\* including 2.2, for a Mimic copy 1 + 75% of its distance from 1, multiplied
\* by the buffs after it in the list alone: what the passives and the earlier
\* buffs made of the multiplier does not enter.  A charge used for the attack
\* stays used.
ChaosOverrides ==
    pure.fn = "run_combat.attack_mods" =>
        LET att == pure.args[1]
            u == pure.args[2]
            bs == att.active_buffs
            k == LastChaos(bs)
            roll == 8000 + (u * 14) \div 1000
            start == IF bs[k].is_mimic_copy THEN ONE + ((roll - ONE) * 3) \div 4 ELSE roll
            rest == [att EXCEPT !.active_buffs = SubSeq(bs, k + 1, Len(bs))]
        IN  /\ k > 0 =>
                  /\ roll >= 8000 /\ roll < 22000
                  /\ pure.out.mod = ApplyAbilityAttackMods(rest, start, u)
                  /\ k = Len(bs) => pure.out.mod = start
            /\ att.passive = "charge" => pure.out.c.charge_used

\* A charging attacker with Pack Howl before its Chaos Strike buff: the
\* passives made the multiplier 1.5, and the result is the lowest chaos roll, 0.8
ChaosOverridesWitness ==
    /\ pure.fn = "run_combat.attack_mods"
    /\ pure.args[1].passive = "charge"
    /\ Len(pure.args[1].active_buffs) = 2
    /\ LastChaos(pure.args[1].active_buffs) = 2
    /\ pure.args[2] = 0
    /\ pure.out.passive_mod = 15000
    /\ pure.out.mod = 8000
    /\ pure.out.c.charge_used

====
